------------------------------ MODULE Spec2Model ------------------------------
(***************************************************************************)
(* A model of radically-straightforward's client-side page-update layer:   *)
(*                                                                         *)
(*   - utilities.backgroundJob(): the recurring-task scheduler             *)
(*     (JobSpec);                                                          *)
(*   - javascript morph(): the tree reconciler (MorphSpec);                *)
(*                                                                         *)
(*   - liveNavigate() and documentMount(): the navigation controller      *)
(*     (NavSpec);                                                          *)
(*   - liveConnection(): the live session (LiveSpec).                      *)
(*                                                                         *)
(* Each specification leaves the variables of the parts it does not run    *)
(* at their initial values.                                                *)
(***************************************************************************)
EXTENDS Naturals, Integers, Sequences, FiniteSets, TLC

VARIABLES
  \* --- backgroundJob() -------------------------------------------------
  state,            \* the closure variable `state`
  timeout,          \* the timer `timeout` refers to: NoTimeout when it is
                    \* not pending, else the delay it was armed with
  inFlight,         \* number of executions of job() awaited right now
  stopCalled,       \* history: stop() has been called
  runCallsInFlight, \* history: run() calls made during the current execution
  executions,       \* history: executions of job() started (saturating)
  lastEnd,          \* history: how the latest ended execution ended
  runCallsAfterStop,\* history: run() calls made after stop() (saturating)
  startedBy,        \* history: what called run() for the latest execution
  \* --- morph() ---------------------------------------------------------
  element,          \* the live element handed to morph(), as it is now
  content,          \* the target element handed to morph()
  event,            \* event?.detail?.liveConnectionUpdate is true
  outer,            \* attribute names that liveConnectionUpdate sets of the
                    \* elements above `from` in the document name
  bias,             \* which of the shortest edit scripts the diff returns
  pc,               \* "call" before morph() runs, "done" after it returned
  element0,         \* history: `element` as it was when morph() was called
  ops,              \* history: DOM mutations morph() performed, in order
  calls,            \* history: the (from, to) pairs morph() was applied to
  \* --- the document, liveNavigate() and liveConnection() ----------------
  document,         \* what the claims read of the live document
  inSubmit,         \* liveNavigate.inSubmit
  dispatches,       \* history: events documentMount() dispatched to window
  mounts,           \* history: the documentMount() calls, in order
  history,          \* window.history: the entries pushState() added
  abortController,  \* liveNavigate.abortController: 0 when undefined, else
                    \* the liveNavigate() call that created it
  navs,             \* the liveNavigate() calls, in order: what each one
                    \* holds while it is suspended
  prompts,          \* history: confirm() calls
  rejections,       \* history: liveNavigate() calls whose promise rejected
  session,          \* the closure of liveConnection() and its attempt
  \* --- backgroundJob(element, elementProperty, ...) ---------------------
  slot,             \* an element, its property and the jobs started on it
  \* --- intern() --------------------------------------------------------
  internPool        \* the heap, the tree of intern() and the calls made

jobVars == <<state, timeout, inFlight, stopCalled, runCallsInFlight,
             executions, lastEnd, runCallsAfterStop, startedBy>>
morphVars == <<element, content, event, outer, bias, pc, element0, ops, calls>>
docVars == <<document, inSubmit, dispatches, mounts, history>>
navVars == <<abortController, navs, prompts, rejections>>
pageVars == <<docVars, navVars, session>>
\* The variables of the parts that only their own specification runs.
auxVars == <<slot, internPool>>
vars == <<jobVars, morphVars, pageVars, auxVars>>

Min(a, b) == IF a < b THEN a ELSE b

(***************************************************************************)
(*                          utilities.backgroundJob()                      *)
(***************************************************************************)

\* Saturation points of the history counters (the program has no such limit).
MaxRunCalls == 3
MaxExecutions == 4

\* `timeout` when no timer it refers to is pending (undefined, a timer that
\* has fired, or one that clearTimeout() cancelled).
NoTimeout == -1

States == {"initial", "running", "runningAndMarkedForRerun", "sleeping",
           "stopped"}

\* The options of backgroundJob(): `interval` as the repository's own test
\* passes it (3 * 1000 ms, counted here in units of 100 ms) and the default
\* intervalVariance of 0.1, kept as the fraction 1 / IntervalVarianceInverse.
Interval == 30
IntervalVarianceInverse == 10

\* interval * intervalVariance * Math.random(), with Math.random() in [0, 1).
Jitters == 0 .. (Interval \div IntervalVarianceInverse) - 1

\* The delays setTimeout() may be handed when job() has returned in state s:
\* 0 when a rerun was marked, else interval + interval * intervalVariance *
\* Math.random().
Delays(s) ==
  IF s = "runningAndMarkedForRerun" THEN {0} ELSE {Interval + j : j \in Jitters}

\* The body of the inner run() up to the await: a new execution of job().
Execute ==
  /\ state' = "running"
  /\ inFlight' = inFlight + 1
  /\ executions' = Min(executions + 1, MaxExecutions)
  /\ runCallsInFlight' = 0
  /\ lastEnd' = "none"

\* backgroundJob() itself: the declarations and the first run().
Start ==
  /\ state = "initial"
  /\ Execute
  /\ startedBy' = "backgroundJob"
  /\ UNCHANGED <<timeout, stopCalled, runCallsAfterStop>>

\* A run() that sets no timer when job() has returned.
JobReturns_NoReschedule ==
  /\ inFlight > 0
  /\ inFlight' = inFlight - 1
  /\ lastEnd' = "ok"
  /\ UNCHANGED <<state, timeout, stopCalled, runCallsInFlight, executions,
                 runCallsAfterStop, startedBy>>

\* await job() returns and run() resumes: reschedule unless stopped.
JobReturns ==
  /\ inFlight > 0
  /\ inFlight' = inFlight - 1
  /\ lastEnd' = "ok"
  /\ IF state \in {"running", "runningAndMarkedForRerun"}
       THEN timeout' \in Delays(state) /\ state' = "sleeping"
       ELSE UNCHANGED <<state, timeout>>
  /\ UNCHANGED <<stopCalled, runCallsInFlight, executions, runCallsAfterStop,
                 startedBy>>

\* await job() throws (job() rejected): run() has no try, so the rest of
\* its body is skipped and its own promise rejects.
JobThrows ==
  /\ inFlight > 0
  /\ inFlight' = inFlight - 1
  /\ lastEnd' = "error"
  /\ UNCHANGED <<state, timeout, stopCalled, runCallsInFlight, executions,
                 runCallsAfterStop, startedBy>>

\* The pending timer fires and calls run().
TimeoutFires ==
  /\ timeout # NoTimeout
  /\ timeout' = NoTimeout
  /\ Execute
  /\ startedBy' = "timeout"
  /\ UNCHANGED <<stopCalled, runCallsAfterStop>>

\* History: one more run() call during the execution in flight, if any.
CountRunCall ==
  runCallsInFlight' = IF inFlight > 0 /\ ~stopCalled
                        THEN Min(runCallsInFlight + 1, MaxRunCalls)
                        ELSE runCallsInFlight

\* A run() that leaves the pending timer armed.
RunSleeping_KeepsTimer == Execute /\ startedBy' = "run" /\ UNCHANGED timeout

\* What the handle's run() does to the scheduler in each state.
RunSleeping == timeout' = NoTimeout /\ Execute /\ startedBy' = "run"

\* A run() that does not look at `state` and calls the inner run() at once.
RunRunning_Reenters == Execute /\ startedBy' = "run" /\ UNCHANGED timeout

RunRunning ==
  /\ state' = "runningAndMarkedForRerun"
  /\ UNCHANGED <<timeout, inFlight, executions, lastEnd, startedBy>>
  /\ CountRunCall

RunOtherwise ==
  /\ UNCHANGED <<state, timeout, inFlight, executions, lastEnd, startedBy>>
  /\ CountRunCall

\* The handle's run().
HandleRun ==
  /\ state # "initial"
  /\ CASE state = "sleeping" -> RunSleeping
       [] state = "running" -> RunRunning
       [] OTHER -> RunOtherwise
  /\ runCallsAfterStop' = IF stopCalled
                            THEN Min(runCallsAfterStop + 1, MaxRunCalls)
                            ELSE runCallsAfterStop
  /\ UNCHANGED stopCalled

\* A stop() that forgets clearTimeout().
StopKeepsTimeout == timeout' = timeout

\* clearTimeout(timeout) of stop(), done only when sleeping.
StopClearsTimeout == timeout' = IF state = "sleeping" THEN NoTimeout ELSE timeout

\* The handle's stop().
HandleStop ==
  /\ state # "initial"
  /\ StopClearsTimeout
  /\ state' = "stopped"
  /\ stopCalled' = TRUE
  /\ runCallsInFlight' = 0
  /\ UNCHANGED <<inFlight, executions, lastEnd, runCallsAfterStop, startedBy>>

JobInitial ==
  /\ state = "initial"
  /\ timeout = NoTimeout
  /\ inFlight = 0
  /\ stopCalled = FALSE
  /\ runCallsInFlight = 0
  /\ executions = 0
  /\ lastEnd = "none"
  /\ runCallsAfterStop = 0
  /\ startedBy = "none"

(***************************************************************************)
(*                      Properties of backgroundJob()                      *)
(***************************************************************************)

\* C1: at most one execution of the unit of work is in progress at any time,
\* under every interleaving of run(), stop(), timer firings and completions.
C1_AtMostOneExecution == inFlight <= 1

\* C1's case: a later execution is in flight, started after an earlier one
\* completed, and run() has been called during it.
C1_Witness == inFlight = 1 /\ executions >= 2 /\ runCallsInFlight >= 1

\* C2: once stop() has been called no new execution of the unit of work
\* starts (the number in flight never grows again): not from a pending
\* timer, not from a marked rerun, not from a later run().  An execution in
\* flight may finish.
C2_StoppedNeverRuns == [][stopCalled => inFlight' <= inFlight]_vars

\* C2's case: stop() was called, the execution that was in flight has
\* finished, and run() has been called afterwards.
C2_Witness ==
  /\ stopCalled
  /\ runCallsAfterStop >= 1
  /\ lastEnd = "ok"
  /\ inFlight = 0
  /\ executions >= 2

\* C3: n >= 1 run() calls made while an execution is in flight (and no stop()
\* since) result in exactly one extra execution, due without waiting for the
\* interval: once that execution has ended, the one timer is pending with
\* delay 0 until the extra execution starts.
C3_RerunCoalesced ==
  (runCallsInFlight >= 1 /\ inFlight = 0) => timeout = 0

\* C4: a unit of work that ends with an error does not kill the job: unless
\* the job is stopped, its next execution is scheduled.
C4_FailedAttemptIsRetried ==
  (lastEnd = "error" /\ ~stopCalled) => timeout # NoTimeout

(***************************************************************************)
(*                                 morph()                                 *)
(*                                                                         *)
(* A DOM node is a record.  `id` stands for the identity of the node       *)
(* object: the side it comes from and its path there when morph() is       *)
(* called.  Moving a node keeps its id.                                    *)
(***************************************************************************)

ELEMENT_NODE == "1"
TEXT_NODE == "3"

NoNode == [nodeType |-> "0"]
NoId == [side |-> "none", path |-> <<>>]

\* element.liveConnectionUpdate: undefined, false, or a Set of names.
Undefined == [kind |-> "undefined", has |-> {}]
False == [kind |-> "false", has |-> {}]
SetOf(names) == [kind |-> "Set", has |-> names]

NoProperties == [p \in {} |-> ""]

Element(tagName, attributes, lcu, properties, childNodes) ==
  [id |-> NoId, nodeType |-> ELEMENT_NODE, tagName |-> tagName,
   attributes |-> [a \in DOMAIN attributes |-> attributes[a]],
   nodeValue |-> "", liveConnectionUpdate |-> lcu,
   properties |-> properties, childNodes |-> childNodes]

Text(nodeValue) ==
  [id |-> NoId, nodeType |-> TEXT_NODE, tagName |-> "",
   attributes |-> [a \in {} |-> ""], nodeValue |-> nodeValue,
   liveConnectionUpdate |-> Undefined, properties |-> NoProperties,
   childNodes |-> <<>>]

\* The attributes and properties that are browser state.
Protected ==
  {"state", "style", "hidden", "open", "disabled", "value", "checked"}

InputProperties == {"value", "checked"}

\* from.matches("input, textarea")
MatchesInputTextarea(node) == node.tagName \in {"INPUT", "TEXTAREA"}

HasAttribute(node, name) == name \in DOMAIN node.attributes

\* `${node.getAttribute("key")}`: the value, or "null" when it is absent.
KeyAttributeText(node) ==
  IF HasAttribute(node, "key") THEN node.attributes["key"] ELSE "null"

\* const key = (node) => `${nodeType}--${tagName}--${key attribute}` or
\* `${nodeType}--${nodeValue}`: a string.
Key(node) ==
  node.nodeType \o "--" \o
    (IF node.nodeType = ELEMENT_NODE
       THEN node.tagName \o "--" \o KeyAttributeText(node)
       ELSE node.nodeValue)

\* The names that element.liveConnectionUpdate?.has?.(name) accepts.
Names(node) ==
  IF node.liveConnectionUpdate.kind = "Set"
    THEN node.liveConnectionUpdate.has ELSE {}

\* A morph() that has no early return for pinned elements.
ShortCircuit_Never(node, push) == FALSE

\* event?.detail?.liveConnectionUpdate && from.liveConnectionUpdate === false
ShortCircuit(node, push) == push /\ node.liveConnectionUpdate.kind = "false"

\* A gate that never looks at the liveConnectionUpdate sets.
SkipAttribute_IgnoresSets(push, attribute, allowed) ==
  push /\ attribute \in Protected

\* The `continue` of the attribute loop; allowed holds the names that
\* parents(from) (from itself included) name in a liveConnectionUpdate set.
SkipAttribute(push, attribute, allowed) ==
  push /\ attribute \in Protected /\ attribute \notin allowed

\* The `continue` of the property loop.
SkipProperty(push, property, allowed) == push /\ property \notin allowed

\* A loop that calls setAttribute() for every attribute of `to`.
AttributeDiffers_Always(node, other, attribute) == TRUE

\* from.getAttribute(attribute) !== to.getAttribute(attribute), `to` having it
AttributeDiffers(node, other, attribute) ==
  \/ ~HasAttribute(node, attribute)
  \/ node.attributes[attribute] # other.attributes[attribute]

\* The attributes of `from` after the attribute loop.
MorphedAttributes(node, other, push, allowed) ==
  LET kept == {a \in DOMAIN node.attributes : SkipAttribute(push, a, allowed)}
      taken == {a \in DOMAIN other.attributes : ~SkipAttribute(push, a, allowed)}
  IN [a \in kept \cup taken |->
        IF a \in kept THEN node.attributes[a] ELSE other.attributes[a]]

Op(op, parent, node, name) ==
  [op |-> op, parent |-> parent, node |-> node, name |-> name]

\* The removeAttribute() and setAttribute() calls of the attribute loop.
AttributeOps(node, other, push, allowed) ==
  LET names == {a \in DOMAIN node.attributes \cup DOMAIN other.attributes :
                  ~SkipAttribute(push, a, allowed)}
  IN {Op("removeAttribute", NoId, node.id, a) :
        a \in {b \in names : ~HasAttribute(other, b)}}
     \cup
     {Op("setAttribute", NoId, node.id, a) :
        a \in {b \in names : HasAttribute(other, b)
                             /\ AttributeDiffers(node, other, b)}}

\* The properties the property loop assigns.  `to` is paired with `from` by
\* key(), which holds the tag name: it is an input or textarea as well.
AssignedProperties(node, other, push, allowed) ==
  IF MatchesInputTextarea(node)
    THEN {p \in InputProperties :
            /\ ~SkipProperty(push, p, allowed)
            /\ node.properties[p] # other.properties[p]}
    ELSE {}

\* The properties of `from` after the property loop.
MorphedProperties(node, other, push, allowed) ==
  LET assigned == AssignedProperties(node, other, push, allowed)
  IN [p \in DOMAIN node.properties |->
        IF p \in assigned THEN other.properties[p] ELSE node.properties[p]]

PropertyOps(node, other, push, allowed) ==
  {Op("setProperty", NoId, node.id, p) :
     p \in AssignedProperties(node, other, push, allowed)}

(***************************************************************************)
(* fastMyersDiff.diff(xs, ys): the change ranges [sx, ex, sy, ey] of a     *)
(* shortest edit script, xs[sx..ex) being replaced by ys[sy..ey), 0-based, *)
(* in order, two ranges always separated by a common run.  Where several   *)
(* shortest scripts exist, `b` says which one is returned: the one that    *)
(* deletes first or the one that inserts first.                            *)
(***************************************************************************)
Biases == {"delete", "insert"}

Max(a, b) == IF a > b THEN a ELSE b

\* Length of a longest common subsequence of xs[i+1..] and ys[j+1..].
RECURSIVE LCS(_, _, _, _)
LCS(xs, ys, i, j) ==
  IF i >= Len(xs) \/ j >= Len(ys) THEN 0
  ELSE IF xs[i + 1] = ys[j + 1] THEN 1 + LCS(xs, ys, i + 1, j + 1)
  ELSE Max(LCS(xs, ys, i + 1, j), LCS(xs, ys, i, j + 1))

AtCommon(xs, ys, i, j) ==
  i < Len(xs) /\ j < Len(ys) /\ xs[i + 1] = ys[j + 1]

\* Where the change range that is open at (i, j) ends.
RECURSIVE RangeEnd(_, _, _, _, _)
RangeEnd(xs, ys, i, j, b) ==
  IF (i = Len(xs) /\ j = Len(ys)) \/ AtCommon(xs, ys, i, j) THEN <<i, j>>
  ELSE IF j = Len(ys) THEN RangeEnd(xs, ys, i + 1, j, b)
  ELSE IF i = Len(xs) THEN RangeEnd(xs, ys, i, j + 1, b)
  ELSE LET deleting == LCS(xs, ys, i + 1, j)
           inserting == LCS(xs, ys, i, j + 1)
       IN IF deleting > inserting \/ (deleting = inserting /\ b = "delete")
            THEN RangeEnd(xs, ys, i + 1, j, b)
            ELSE RangeEnd(xs, ys, i, j + 1, b)

DiffRange(fromStart, fromEnd, toStart, toEnd) ==
  [fromStart |-> fromStart, fromEnd |-> fromEnd,
   toStart |-> toStart, toEnd |-> toEnd]

RECURSIVE DiffAt(_, _, _, _, _)
DiffAt(xs, ys, i, j, b) ==
  IF i = Len(xs) /\ j = Len(ys) THEN <<>>
  ELSE IF AtCommon(xs, ys, i, j) THEN DiffAt(xs, ys, i + 1, j + 1, b)
  ELSE LET end == RangeEnd(xs, ys, i, j, b)
       IN <<DiffRange(i, end[1], j, end[2])>>
            \o DiffAt(xs, ys, end[1], end[2], b)

FastMyersDiff(xs, ys, b) == DiffAt(xs, ys, 0, 0, b)

(***************************************************************************)
(* The reconciliation of the child nodes.  Positions are 1-based indexes   *)
(* into from.childNodes and to.childNodes as they are when morph() is      *)
(* entered; 0 stands for undefined / null.                                 *)
(***************************************************************************)

\* The positions of the 0-based range [start, end), in order.
Positions(start, end) == [k \in 1 .. (end - start) |-> start + k]

RECURSIVE Concat(_)
Concat(seqs) ==
  IF seqs = <<>> THEN <<>> ELSE Head(seqs) \o Concat(Tail(seqs))

Keys(childNodes) == [k \in 1 .. Len(childNodes) |-> Key(childNodes[k])]

\* const diff = [[0, 0, 0, 0], ...fastMyersDiff.diff(...), [n, n, m, m]]
Diff(node, other, b) ==
  <<DiffRange(0, 0, 0, 0)>>
    \o FastMyersDiff(Keys(node.childNodes), Keys(other.childNodes), b)
    \o <<DiffRange(Len(node.childNodes), Len(node.childNodes),
                   Len(other.childNodes), Len(other.childNodes))>>

\* A loop that runs to nodeIndex <= fromEnd.
RemovalPositions_OffByOne(node, range) ==
  Positions(range.fromStart,
            Min(range.fromEnd + 1, Len(node.childNodes)))

\* for (let nodeIndex = fromStart; nodeIndex < fromEnd; nodeIndex++)
RemovalPositions(node, range) == Positions(range.fromStart, range.fromEnd)

\* A first loop without the exemption of pinned children.
KeptOnPush_Never(node, push) == FALSE

\* node.liveConnectionUpdate === false on a push update: not to be removed.
KeptOnPush(node, push) == push /\ node.liveConnectionUpdate.kind = "false"

\* toRemove when the first loop is over: the removal candidates in the order
\* they were pushed; the bucket of a key is its subsequence with that key.
ToRemove(node, diff, push) ==
  SelectSeq(
    Concat([d \in 1 .. Len(diff) - 2 |-> RemovalPositions(node, diff[d + 1])]),
    LAMBDA i : ~KeptOnPush(node.childNodes[i], push))

\* The target positions the second loop visits, in order, each with its
\* nodeAfter: from.childNodes[fromEnd] ?? null.
GapTargets(node, diff) ==
  Concat([d \in 1 .. Len(diff) - 1 |->
    [k \in 1 .. (diff[d + 1].toEnd - diff[d + 1].toStart) |->
       [to |-> diff[d + 1].toStart + k,
        nodeAfter |-> IF diff[d + 1].fromEnd < Len(node.childNodes)
                        THEN diff[d + 1].fromEnd + 1 ELSE 0]]])

\* A lookup that never finds a candidate to reuse.
Shift_Nothing(hits) == 0

\* A bucket that gives its newest candidate: pop() for shift().
Shift_Last(hits) ==
  IF hits = {} THEN 0 ELSE CHOOSE p \in hits : \A q \in hits : p >= q

\* toRemove.get(key)?.shift(): the first candidate of the bucket, here as
\* an index into the candidates left; 0 when the bucket is empty.
Shift(hits) ==
  IF hits = {} THEN 0 ELSE CHOOSE p \in hits : \A q \in hits : p <= q

RemoveAt(seq, p) ==
  [k \in 1 .. Len(seq) - 1 |-> IF k < p THEN seq[k] ELSE seq[k + 1]]

\* The second loop: toAdd, and what is left in toRemove after it.
RECURSIVE Resolve(_, _, _, _)
Resolve(fromKeys, toKeys, targets, candidates) ==
  IF targets = <<>> THEN [toAdd |-> <<>>, toRemove |-> candidates]
  ELSE LET target == Head(targets)
           p == Shift({q \in 1 .. Len(candidates) :
                         fromKeys[candidates[q]] = toKeys[target.to]})
           rest == Resolve(fromKeys, toKeys, Tail(targets),
                           IF p = 0 THEN candidates ELSE RemoveAt(candidates, p))
       IN [toAdd |-> <<[from |-> IF p = 0 THEN 0 ELSE candidates[p],
                        to |-> target.to,
                        nodeAfter |-> target.nodeAfter]>> \o rest.toAdd,
           toRemove |-> rest.toRemove]

\* The pairs of toMorph that come from the common runs between the ranges.
MatchedPairs(diff) ==
  UNION {{[from |-> diff[d].fromEnd + k, to |-> diff[d].toEnd + k] :
            k \in 1 .. (diff[d + 1].fromStart - diff[d].fromEnd)} :
         d \in 1 .. Len(diff) - 1}

\* toMorph: the common runs and the reused candidates.
ToMorph(diff, toAdd) ==
  MatchedPairs(diff)
    \cup {[from |-> toAdd[k].from, to |-> toAdd[k].to] :
            k \in {j \in 1 .. Len(toAdd) : toAdd[j].from # 0}}

PositionOf(childNodes, id) ==
  IF \E k \in 1 .. Len(childNodes) : childNodes[k].id = id
    THEN CHOOSE k \in 1 .. Len(childNodes) : childNodes[k].id = id
    ELSE 0

\* parent.removeChild(node)
RemoveChild(childNodes, id) == SelectSeq(childNodes, LAMBDA c : c.id # id)

\* parent.insertBefore(node, nodeAfter): node leaves the place it has, if it
\* is a child already, and goes before nodeAfter, or last when nodeAfter is
\* null.  nodeAfter is a child of a common run, which nothing removes; were
\* it no child, insertBefore() would throw and nothing would be inserted.
InsertBefore(childNodes, node, nodeAfter) ==
  LET others == RemoveChild(childNodes, node.id)
      p == PositionOf(others, nodeAfter)
  IN IF nodeAfter = NoId THEN Append(others, node)
     ELSE IF p = 0 THEN childNodes
     ELSE SubSeq(others, 1, p - 1) \o <<node>> \o SubSeq(others, p, Len(others))

RECURSIVE RemoveAll(_, _)
RemoveAll(childNodes, ids) ==
  IF ids = <<>> THEN childNodes
  ELSE RemoveAll(RemoveChild(childNodes, Head(ids)), Tail(ids))

\* The node a toAdd entry inserts: fromChildNode ?? toChildNode.
AddedNode(node, other, add) ==
  IF add.from # 0 THEN node.childNodes[add.from] ELSE other.childNodes[add.to]

NodeAfterId(node, add) ==
  IF add.nodeAfter = 0 THEN NoId ELSE node.childNodes[add.nodeAfter].id

RECURSIVE InsertAll(_, _, _, _)
InsertAll(childNodes, node, other, toAdd) ==
  IF toAdd = <<>> THEN childNodes
  ELSE InsertAll(InsertBefore(childNodes, AddedNode(node, other, Head(toAdd)),
                              NodeAfterId(node, Head(toAdd))),
                 node, other, Tail(toAdd))

\* What the two loops decide for one (from, to) pair.
Plan(node, other, push, b) ==
  LET diff == Diff(node, other, b)
      resolved == Resolve(Keys(node.childNodes), Keys(other.childNodes),
                          GapTargets(node, diff), ToRemove(node, diff, push))
  IN [toRemove |-> resolved.toRemove,
      toAdd |-> resolved.toAdd,
      toMorph |-> ToMorph(diff, resolved.toAdd)]

\* from.childNodes after the removeChild() and insertBefore() loops.
PlacedChildNodes(node, other, plan) ==
  InsertAll(
    RemoveAll(node.childNodes,
              [k \in 1 .. Len(plan.toRemove) |->
                 node.childNodes[plan.toRemove[k]].id]),
    node, other, plan.toAdd)

ChildOps(node, other, plan) ==
  {Op("removeChild", node.id, node.childNodes[plan.toRemove[k]].id, "") :
     k \in 1 .. Len(plan.toRemove)}
  \cup
  {Op("insertBefore", node.id, AddedNode(node, other, plan.toAdd[k]).id, "") :
     k \in 1 .. Len(plan.toAdd)}

\* The `to` position that toMorph pairs with the child `id` of from; 0 if none.
PartnerOf(node, plan, id) ==
  LET i == PositionOf(node.childNodes, id)
      pairs == {pair \in plan.toMorph : pair.from = i}
  IN IF i = 0 \/ pairs = {} THEN 0 ELSE (CHOOSE pair \in pairs : TRUE).to

Call(node, other) == [from |-> node.id, to |-> other.id]

RECURSIVE Morph(_, _, _, _, _)

\* The last loop: morph() of every pair of toMorph.  The children that were
\* added, and the text nodes, stay as they are.
MorphChildNodes(node, other, push, allowed, b, plan, placed) ==
  [k \in 1 .. Len(placed) |->
     LET p == PartnerOf(node, plan, placed[k].id)
     IN IF p # 0 /\ placed[k].nodeType = ELEMENT_NODE
          THEN Morph(placed[k], other.childNodes[p], push, allowed, b)
          ELSE [node |-> placed[k], ops |-> {}, calls |-> {}]]

\* `from` after the call, for its children as they were placed and morphed.
Reconciled(node, other, push, allowed, plan, morphed) ==
  [node |->
     [node EXCEPT
        !.attributes = MorphedAttributes(node, other, push, allowed),
        !.properties = MorphedProperties(node, other, push, allowed),
        !.childNodes = [k \in DOMAIN morphed |-> morphed[k].node]],
   ops |->
     AttributeOps(node, other, push, allowed)
       \cup PropertyOps(node, other, push, allowed)
       \cup ChildOps(node, other, plan)
       \cup UNION {morphed[k].ops : k \in DOMAIN morphed},
   calls |->
     {Call(node, other)} \cup UNION {morphed[k].calls : k \in DOMAIN morphed}]

\* The body of morph() once the plan for the children is made.
Planned(node, other, push, allowed, b, plan) ==
  Reconciled(node, other, push, allowed, plan,
             MorphChildNodes(node, other, push, allowed, b, plan,
                             PlacedChildNodes(node, other, plan)))

\* morph(from, to, event); ancestors holds the names that the
\* liveConnectionUpdate sets of the elements above `from` name.  The result
\* is `from` afterwards, with the DOM mutations and the morph() calls made.
Morph(node, other, push, ancestors, b) ==
  IF ShortCircuit(node, push)
    THEN [node |-> node, ops |-> {}, calls |-> {Call(node, other)}]
    ELSE Planned(node, other, push, ancestors \cup Names(node), b,
                 Plan(node, other, push, b))

\* The identities of a tree: side and path.
RECURSIVE Identified(_, _, _)
Identified(node, side, path) ==
  [node EXCEPT
     !.id = [side |-> side, path |-> path],
     !.childNodes = [k \in 1 .. Len(node.childNodes) |->
                       Identified(node.childNodes[k], side, Append(path, k))]]

\* node.cloneNode(true): a copy of the markup and of the input state; the
\* liveConnectionUpdate of an element is a property of the object and is
\* not copied.
RECURSIVE CloneNode(_)
CloneNode(node) ==
  [node EXCEPT
     !.id = NoId,
     !.liveConnectionUpdate = Undefined,
     !.childNodes = [k \in 1 .. Len(node.childNodes) |->
                       CloneNode(node.childNodes[k])]]

(***************************************************************************)
(* The trees morph() is checked on.                                        *)
(***************************************************************************)

\* Most child nodes of a root in the structural and in the pinning inputs.
MaxChildren == 3
MaxPinnedChildren == 2

SeqsUpTo(pool, n) == UNION {[1 .. k -> pool] : k \in 0 .. n}

\* The sequences of at most n nodes of the pool, none of them twice.
Arrangements(pool, n) ==
  {seq \in SeqsUpTo(pool, n) :
     \A i, j \in 1 .. Len(seq) : i # j => seq[i] # seq[j]}

InsertAt(seq, p, x) == SubSeq(seq, 1, p - 1) \o <<x>> \o SubSeq(seq, p, Len(seq))

Div(attributes, childNodes) ==
  Element("DIV", attributes, Undefined, NoProperties, childNodes)

Input(attributes, lcu, value, checked) ==
  Element("INPUT", attributes, lcu, [value |-> value, checked |-> checked], <<>>)

\* A target is parsed from markup: no element of it has liveConnectionUpdate,
\* and the properties of its inputs are those its attributes give.
ParsedInput(attributes) ==
  Input(attributes, Undefined,
        IF "value" \in DOMAIN attributes THEN attributes["value"] ELSE "",
        "checked" \in DOMAIN attributes)

\* Keyed siblings that are reordered, inserted and deleted.
LiveSiblings ==
  {Div([key |-> "a", class |-> "x"], <<>>),
   Div([key |-> "b"], <<Text("t")>>),
   Div([key |-> "c", hidden |-> ""], <<>>)}

TargetSiblings ==
  {Div([key |-> "a", class |-> "y"], <<>>),
   Div([key |-> "b"], <<Text("u")>>),
   Div([key |-> "c"], <<>>),
   Div([key |-> "x", title |-> "new"], <<>>)}

NewSibling == Div([key |-> "x", title |-> "new"], <<>>)

\* The target siblings that come several times in one target.
RepeatedSiblings == {t \in TargetSiblings : t.attributes["key"] \in {"a", "b"}}

\* Targets: the keys in any order, and lists in which keys repeat.
StructuralTargets ==
  Arrangements(TargetSiblings, MaxChildren)
    \cup SeqsUpTo(RepeatedSiblings, MaxChildren)

StructuralInputs ==
  {[from |-> Div([class |-> "x"], live), to |-> Div([class |-> "y"], target),
    outer |-> {}] :
     live \in SeqsUpTo(LiveSiblings, MaxChildren),
     target \in StructuralTargets}
  \cup
  \* the live siblings again, with one new node among them
  UNION {{[from |-> Div([class |-> "x"], live),
           to |-> Div([class |-> "x"],
                      InsertAt([k \in 1 .. Len(live) |-> CloneNode(live[k])],
                               p, NewSibling)),
           outer |-> {}] : p \in 1 .. Len(live) + 1} :
         live \in SeqsUpTo(LiveSiblings, MaxChildren)}

\* Inputs with browser state, pinned elements, and elements whose
\* liveConnectionUpdate names attributes.
LiveInput == Input([key |-> "i", value |-> "old"], Undefined, "typed", FALSE)
PinnedInput == Input([key |-> "p", value |-> "old"], False, "typed", FALSE)

LivePinning ==
  {LiveInput,
   PinnedInput,
   Element("FORM", [key |-> "f", class |-> "x"], SetOf({"value"}),
           NoProperties, <<LiveInput>>),
   Element("DIV", [key |-> "w", style |-> "old"], False, NoProperties,
           <<LiveInput, Text("kept")>>)}

TargetInput == ParsedInput([key |-> "i", value |-> "new", checked |-> ""])

TargetPinning ==
  {TargetInput,
   ParsedInput([key |-> "p", value |-> "new"]),
   Element("FORM", [key |-> "f"], Undefined, NoProperties, <<TargetInput>>),
   Div([key |-> "w"], <<Text("changed")>>)}

RootUpdates == {Undefined, False, SetOf({"value"})}
Outers == {{}, {"value"}}

PinningInputs ==
  {[from |-> Element("DIV", [style |-> "old"], lcu, NoProperties, live),
    to |-> Div([style |-> "new"], target),
    outer |-> names] :
     lcu \in RootUpdates, names \in Outers,
     live \in Arrangements(LivePinning, MaxPinnedChildren),
     target \in Arrangements(TargetPinning, MaxPinnedChildren)}

\* Custom elements: <a--b key="c"> and <a key="B--c">.
LiveCustom ==
  {Element("A--B", [key |-> "c"], Undefined, NoProperties, <<>>),
   Element("A", [key |-> "B--c"], Undefined, NoProperties, <<Text("t")>>)}

CustomInputs ==
  {[from |-> Div(<<>>, live), to |-> Div(<<>>, target), outer |-> {}] :
     live \in SeqsUpTo(LiveCustom, MaxPinnedChildren),
     target \in SeqsUpTo(LiveCustom, MaxPinnedChildren)}

\* Most siblings with one key on either side in the inputs with repeats.
MaxRepeats == 2

\* What tells the siblings with one key apart.
Stamps == <<"1", "2", "3", "4">>

\* n live siblings with the key "r", the first of them pinned or not, and m
\* target siblings with it.
LiveRepeats(n, pinned) ==
  [k \in 1 .. n |->
     Element("DIV", [key |-> "r", class |-> Stamps[k]],
             IF pinned /\ k = 1 THEN False ELSE Undefined, NoProperties, <<>>)]

TargetRepeats(m) ==
  [k \in 1 .. m |-> Div([key |-> "r", title |-> Stamps[k]], <<>>)]

\* Two siblings with keys of their own, which every diff keeps: the repeats
\* go from before them to after them.
Anchors == <<Div([key |-> "b"], <<Text("t")>>), Div([key |-> "c"], <<>>)>>

RepeatInputs ==
  {[from |-> Div(<<>>, LiveRepeats(n, pinned) \o Anchors),
    to |-> Div(<<>>, Anchors \o TargetRepeats(m)),
    outer |-> {}] :
     n \in 1 .. MaxRepeats, m \in 1 .. MaxRepeats, pinned \in BOOLEAN}

\* Every live tree also meets its own clone.
CloneInputs(inputs) ==
  {[from |-> input.from, to |-> CloneNode(input.from), outer |-> input.outer] :
     input \in inputs}

Inputs ==
  LET given ==
        StructuralInputs \cup PinningInputs \cup CustomInputs \cup RepeatInputs
  IN given \cup CloneInputs(given)

\* morph(element, content, event) is about to be called.
MorphInitial ==
  /\ \E input \in Inputs :
       /\ element = Identified(input.from, "from", <<>>)
       /\ content = Identified(input.to, "to", <<>>)
       /\ outer = input.outer
  /\ event \in BOOLEAN
  /\ bias \in Biases
  /\ pc = "call"
  /\ element0 = element
  /\ ops = {}
  /\ calls = {}

\* No morph() is called.
MorphIdle ==
  /\ element = NoNode
  /\ content = NoNode
  /\ outer = {}
  /\ event = FALSE
  /\ bias = "delete"
  /\ pc = "idle"
  /\ element0 = NoNode
  /\ ops = {}
  /\ calls = {}

\* The call morph(element, content, event), whole: morph() is synchronous.
CallMorph ==
  /\ pc = "call"
  /\ LET result == Morph(element, content, event, outer, bias)
     IN /\ element' = result.node
        /\ ops' = result.ops
        /\ calls' = result.calls
  /\ pc' = "done"
  /\ UNCHANGED <<content, event, outer, bias, element0>>

(***************************************************************************)
(*                          Properties of morph()                          *)
(***************************************************************************)

\* What the markup of a node says: kind, tag, attributes, text, children.
RECURSIVE Markup(_)
Markup(node) ==
  [nodeType |-> node.nodeType, tagName |-> node.tagName,
   attributes |-> node.attributes, nodeValue |-> node.nodeValue,
   childNodes |-> [k \in 1 .. Len(node.childNodes) |->
                     Markup(node.childNodes[k])]]

RECURSIVE NodeAt(_, _)
NodeAt(node, path) ==
  IF path = <<>> THEN node ELSE NodeAt(node.childNodes[Head(path)], Tail(path))

RECURSIVE NodesOf(_)
NodesOf(node) ==
  {node} \cup UNION {NodesOf(node.childNodes[k]) :
                       k \in 1 .. Len(node.childNodes)}

IdsOf(node) == {n.id : n \in NodesOf(node)}

\* The two nodes of a morph() call as they were when morph(element, ...) was
\* called, and the live one as it is now.
FromThen(call) == NodeAt(element0, call.from.path)
ToThen(call) == NodeAt(content, call.to.path)
FromNow(call) == CHOOSE n \in NodesOf(element) : n.id = call.from

ChildIds(node) == {node.childNodes[k].id : k \in 1 .. Len(node.childNodes)}

Count(keys, key) == Cardinality({k \in 1 .. Len(keys) : keys[k] = key})

Range(seq) == {seq[k] : k \in 1 .. Len(seq)}

\* The names that the liveConnectionUpdate sets of the element at `path` of
\* the live tree and of the elements above it name.
NamedFor(path) ==
  outer \cup UNION {Names(NodeAt(element0, SubSeq(path, 1, k))) :
                      k \in 0 .. Len(path)}

\* An attribute of a node: whether it is there, and its value.
AttributeOf(node, name) ==
  IF HasAttribute(node, name) THEN <<TRUE, node.attributes[name]>>
  ELSE <<FALSE, "">>

ChildOpsOn(id) ==
  {o \in ops : o.parent = id /\ o.op \in {"removeChild", "insertBefore"}}

\* C5: after a non-push morph of two elements with the same tag the live
\* tree has the markup the target had: attributes, children in order, kinds,
\* tags and text, for all descendants.
C5_MorphMatchesTarget ==
  (pc = "done" /\ ~event /\ element0.tagName = content.tagName)
    => Markup(element) = Markup(content)

\* The target is a clone of the live tree.
IsClone == content = Identified(CloneNode(element0), "to", <<>>)

\* C6: morph(T, clone(T)), push or not, sets and removes no attribute and
\* removes and inserts no child anywhere in T.
C6_Idempotence ==
  (pc = "done" /\ IsClone)
    => {o \in ops : o.op \in {"setAttribute", "removeAttribute",
                              "removeChild", "insertBefore"}} = {}

\* C6's case: a tree with children and grandchildren has met its clone on a
\* push update, and morph() has gone through its elements.
C6_Witness ==
  /\ pc = "done" /\ IsClone /\ event
  /\ Len(element0.childNodes) >= 2
  /\ Cardinality(calls) >= 3
  /\ \E n \in NodesOf(element0) : Len(n.id.path) = 2

\* C7: in a non-push morph of one parent, for every key, the live children
\* with that key that stay in the parent are as many as the smaller of the
\* numbers of live and of target children with that key; siblings with
\* distinct keys that meet a permutation of their keys are all kept, and no
\* target node is moved in.
C7_ReuseByKey ==
  (pc = "done" /\ ~event) =>
    \A call \in calls :
      LET fromKeys == Keys(FromThen(call).childNodes)
          toKeys == Keys(ToThen(call).childNodes)
          stayed == SelectSeq(FromThen(call).childNodes,
                              LAMBDA c : c.id \in ChildIds(FromNow(call)))
      IN /\ \A key \in Range(fromKeys) \cup Range(toKeys) :
              Count(Keys(stayed), key)
                = Min(Count(fromKeys, key), Count(toKeys, key))
         /\ (/\ Cardinality(Range(fromKeys)) = Len(fromKeys)
             /\ Len(toKeys) = Len(fromKeys)
             /\ Range(toKeys) = Range(fromKeys))
            => /\ ChildIds(FromNow(call)) = ChildIds(FromThen(call))
               /\ \A o \in ChildOpsOn(call.from) :
                    o.op = "insertBefore" /\ o.node.side = "from"

\* C7's case: three siblings with distinct keys have met a permutation of
\* their keys that moved some of them.
C7_Witness ==
  /\ pc = "done" /\ ~event
  /\ Len(element0.childNodes) = 3
  /\ Cardinality(Range(Keys(element0.childNodes))) = 3
  /\ Len(content.childNodes) = 3
  /\ Range(Keys(content.childNodes)) = Range(Keys(element0.childNodes))
  /\ Keys(content.childNodes) # Keys(element0.childNodes)
  /\ ChildOpsOn(element0.id) # {}

\* keys is shorter with one key put in at position p.
IsInsertionAt(shorter, longer, p) ==
  /\ Len(longer) = Len(shorter) + 1
  /\ p \in 1 .. Len(longer)
  /\ shorter = RemoveAt(longer, p)

\* C8: live children in a common run of the diff are never handed to
\* removeChild() or insertBefore() by the morph of their parent; when the
\* target children are the live children with one new node put in, the live
\* children all stay, in their order, and the one child mutation is the
\* insertion of a target node.
C8_InsertionLocality ==
  pc = "done" =>
    \A call \in calls :
      ~ShortCircuit(FromThen(call), event) =>
        LET old == FromThen(call)
            new == FromNow(call)
            fromKeys == Keys(old.childNodes)
            toKeys == Keys(ToThen(call).childNodes)
            common == {old.childNodes[pair.from].id :
                         pair \in MatchedPairs(Diff(old, ToThen(call), bias))}
        IN /\ \A o \in ChildOpsOn(call.from) : o.node \notin common
           /\ (\E p \in 1 .. Len(toKeys) : IsInsertionAt(fromKeys, toKeys, p))
              => /\ Cardinality(ChildOpsOn(call.from)) = 1
                 /\ \A o \in ChildOpsOn(call.from) :
                      o.op = "insertBefore" /\ o.node.side = "to"
                 /\ Len(new.childNodes) = Len(old.childNodes) + 1
                 /\ SelectSeq([k \in 1 .. Len(new.childNodes) |->
                                 new.childNodes[k].id],
                              LAMBDA id : id.side = "from")
                    = [k \in 1 .. Len(old.childNodes) |-> old.childNodes[k].id]

\* C8's case: three live siblings have met themselves with a node of a new
\* key put in between the first and the second.
C8_Witness ==
  /\ pc = "done"
  /\ Len(element0.childNodes) = 3
  /\ IsInsertionAt(Keys(element0.childNodes), Keys(content.childNodes), 2)
  /\ Key(content.childNodes[2]) \notin Range(Keys(element0.childNodes))
  /\ ChildOpsOn(element0.id) # {}

\* C31: key-bucketed pairing is first-in first-out.  Within the morph of one
\* parent, for every key, the i-th target child in a gap of the diff with
\* that key (in target order) is paired with the i-th live removal candidate
\* with that key (in live order), up to the smaller of the two counts: the
\* candidate stays in the parent and, when it is an element, is morphed with
\* that target child.  The candidates beyond that are removed and the target
\* children beyond that are moved in as they are.
C31_FirstInFirstOut ==
  pc = "done" =>
    \A call \in calls :
      ~ShortCircuit(FromThen(call), event) =>
        LET old == FromThen(call)
            target == ToThen(call)
            stay == ChildIds(FromNow(call))
            fromKeys == Keys(old.childNodes)
            toKeys == Keys(target.childNodes)
            diff == Diff(old, target, bias)
            candidates == ToRemove(old, diff, event)
            gaps == GapTargets(old, diff)
        IN \A key \in Range(fromKeys) \cup Range(toKeys) :
             LET live == SelectSeq(candidates, LAMBDA i : fromKeys[i] = key)
                 added == SelectSeq(gaps, LAMBDA t : toKeys[t.to] = key)
                 paired == Min(Len(live), Len(added))
             IN /\ \A i \in 1 .. paired :
                     LET kept == old.childNodes[live[i]]
                         partner == target.childNodes[added[i].to]
                     IN /\ kept.id \in stay
                        /\ partner.id \notin stay
                        /\ kept.nodeType = ELEMENT_NODE =>
                             Call(kept, partner) \in calls
                /\ \A i \in paired + 1 .. Len(live) :
                     /\ old.childNodes[live[i]].id \notin stay
                     /\ Op("removeChild", old.id, old.childNodes[live[i]].id, "")
                          \in ops
                /\ \A i \in paired + 1 .. Len(added) :
                     target.childNodes[added[i].to].id \in stay

\* C31's case: two live siblings with one key went out of the diff before
\* the siblings that stay, two target siblings with that key came in after
\* them, and each live one was morphed with the target one of its rank.
C31_Witness ==
  /\ pc = "done"
  /\ Len(element0.childNodes) = 4
  /\ Key(element0.childNodes[1]) = Key(element0.childNodes[2])
  /\ Len(content.childNodes) = 4
  /\ Key(content.childNodes[3]) = Key(element0.childNodes[1])
  /\ Key(content.childNodes[4]) = Key(element0.childNodes[1])
  /\ Call(element0.childNodes[1], content.childNodes[3]) \in calls
  /\ Call(element0.childNodes[2], content.childNodes[4]) \in calls
  /\ \E o \in ops : o.op = "insertBefore" /\ o.node = element0.childNodes[1].id

\* What C9 says of one morph() call: each protected attribute, and for an
\* input or textarea each of the properties value and checked, is the
\* target's after a non-push morph, and after a push update it is the
\* target's if the element or an element above it names it, and else what
\* it was.
ProtectedAsClaimed(call) ==
  LET old == FromThen(call)
      new == FromNow(call)
      target == ToThen(call)
      named == NamedFor(call.from.path)
  IN /\ \A a \in Protected :
          AttributeOf(new, a) =
            AttributeOf(IF event /\ a \notin named THEN old ELSE target, a)
     /\ MatchesInputTextarea(old) =>
          \A p \in InputProperties :
            new.properties[p] =
              (IF event /\ p \notin named THEN old ELSE target).properties[p]

\* C9 as claimed: this holds of every reused live element.
C9_PushProtection_AsClaimed ==
  pc = "done" => \A call \in calls : ProtectedAsClaimed(call)

\* C9, amended: it holds of every reused live element, except on a push
\* update of an element whose liveConnectionUpdate is false.
C9_PushProtection ==
  pc = "done" =>
    \A call \in calls :
      ~(event /\ FromThen(call).liveConnectionUpdate.kind = "false")
        => ProtectedAsClaimed(call)

\* C9's case: a push update has reached an input, under an element whose
\* liveConnectionUpdate names "value", whose target has another value, and
\* an input that nothing names.
C9_Witness ==
  /\ pc = "done" /\ event
  /\ \E call \in calls :
       /\ MatchesInputTextarea(FromThen(call))
       /\ "value" \in NamedFor(call.from.path)
       /\ FromThen(call).liveConnectionUpdate.kind # "false"
       /\ FromThen(call).attributes["value"] # ToThen(call).attributes["value"]
       /\ FromNow(call).attributes["value"] = ToThen(call).attributes["value"]
  /\ \E call \in calls :
       /\ MatchesInputTextarea(FromThen(call))
       /\ "value" \notin NamedFor(call.from.path)
       /\ FromThen(call).attributes["value"] # ToThen(call).attributes["value"]
       /\ FromNow(call).attributes["value"] = FromThen(call).attributes["value"]

\* C10: a push update leaves an element whose liveConnectionUpdate is false,
\* with its attributes, properties, children and descendants, as it was,
\* whatever the target: no DOM mutation touches it or anything in it.
C10_PinnedSubtreeExclusion ==
  (pc = "done" /\ event) =>
    \A call \in calls :
      FromThen(call).liveConnectionUpdate.kind = "false" =>
        /\ FromNow(call) = FromThen(call)
        /\ \A o \in ops :
             o.node \notin IdsOf(FromThen(call))
               /\ o.parent \notin IdsOf(FromThen(call))

\* C10's case: a push update has met a pinned element that has children and
\* whose target has other attributes and other children.
C10_Witness ==
  /\ pc = "done" /\ event
  /\ \E call \in calls :
       /\ FromThen(call).liveConnectionUpdate.kind = "false"
       /\ FromThen(call).childNodes # <<>>
       /\ Markup(ToThen(call)).attributes # Markup(FromThen(call)).attributes
       /\ Markup(ToThen(call)).childNodes # Markup(FromThen(call)).childNodes

\* The children of `node` that are pinned and whose key no child of `other`
\* has.
PinnedOrphans(node, other) ==
  {k \in 1 .. Len(node.childNodes) :
     /\ node.childNodes[k].liveConnectionUpdate.kind = "false"
     /\ Key(node.childNodes[k]) \notin Range(Keys(other.childNodes))}

\* The morph() calls that went past the early return.
MorphedCalls ==
  {call \in calls : ~ShortCircuit(FromThen(call), event)}

\* C11: on a push update the morph of a parent never removes a child whose
\* liveConnectionUpdate is false, whatever the target's children are; a
\* non-push morph removes such a child when no target child has its key.
C11_PinnedChildKept ==
  pc = "done" =>
    \A call \in MorphedCalls :
      LET old == FromThen(call)
          new == FromNow(call)
      IN /\ event =>
              \A k \in 1 .. Len(old.childNodes) :
                old.childNodes[k].liveConnectionUpdate.kind = "false" =>
                  /\ old.childNodes[k].id \in ChildIds(new)
                  /\ \A o \in ChildOpsOn(old.id) : o.node # old.childNodes[k].id
         /\ ~event =>
              \A k \in PinnedOrphans(old, ToThen(call)) :
                /\ old.childNodes[k].id \notin ChildIds(new)
                /\ \E o \in ChildOpsOn(old.id) :
                     o.op = "removeChild" /\ o.node = old.childNodes[k].id

\* C11's case: a push update has morphed a parent that has a pinned child
\* whose key the target's children do not have, next to a child that is not
\* pinned and was removed.
C11_Witness ==
  /\ pc = "done" /\ event
  /\ \E call \in MorphedCalls :
       /\ PinnedOrphans(FromThen(call), ToThen(call)) # {}
       /\ \E o \in ChildOpsOn(call.from) : o.op = "removeChild"

(***************************************************************************)
(*                      The document and documentMount()                   *)
(*                                                                         *)
(* Of the live document the model keeps what liveNavigate(),               *)
(* documentMount() and liveConnection() read and write: the content of     *)
(* <meta name="version">, which response it shows, the [key="global-error"] *)
(* elements in document order, the [key="progress-bar"] elements, whether  *)
(* form fields differ from their defaults, and the isModified property of  *)
(* <html>.                                                                 *)
(***************************************************************************)

\* getAttribute("content") of <meta name="version">; Absent when
\* querySelector() finds no such element (the result is undefined).
Absent == "absent"
Versions == {Absent, "1", "2"}

\* Where the markup shown comes from: the first load, the response of the
\* n-th liveNavigate() call, or the n-th record of the live session.
Page(from, n) == [from |-> from, n |-> n]
FirstPage == Page("load", 0)

\* A [key="global-error"] element; ref says that
\* liveConnection.failedToConnectGlobalError refers to it.
Banner(kind, ref) == [kind |-> kind, ref |-> ref]

\* document.querySelector('[key="global-error"]')?.remove()
RemoveFirstBanner(banners) == IF banners = <<>> THEN <<>> ELSE Tail(banners)

\* insertAdjacentHTML / insertAdjacentElement("afterbegin", ...) on <body>
InsertBanner(banners, banner) == <<banner>> \o banners

\* A comparison that takes a missing marker for a version of its own.
VersionMismatch_CountsAbsent(documentVersion, contentVersion) ==
  documentVersion # contentVersion

\* typeof documentVersion === "string" && typeof contentVersion === "string"
\* && documentVersion !== contentVersion
VersionMismatch(documentVersion, contentVersion) ==
  /\ documentVersion # Absent
  /\ contentVersion # Absent
  /\ documentVersion # contentVersion

\* isModified(document.querySelector("html")): <html>.isModified === false
\* forces the answer for every field.
IsModified(doc) == doc.htmlIsModified # "false" /\ doc.modified

\* morph(document.querySelector("html"), content, event) as far as the
\* document kept here goes.  The progress bars and the banners are children of
\* <body> that the content does not have and that are not pinned: they are
\* removed, push update or not.  A non-push morph sets the form fields to
\* the content's; a push update leaves value and checked alone.
MorphDocument(doc, contentVersion, page, push) ==
  [doc EXCEPT
     !.version = contentVersion,
     !.page = page,
     !.banners = <<>>,
     !.progressBars = {},
     !.modified = IF push THEN doc.modified ELSE FALSE]

\* The version-mismatch branch of documentMount().
RefuseContent(doc) ==
  [doc EXCEPT
     !.htmlIsModified = "false",
     !.banners = InsertBanner(RemoveFirstBanner(doc.banners),
                              Banner("version", FALSE))]

\* documentMount(content, event): the document afterwards, and whether the
\* event was dispatched to window.
DocumentMount(doc, contentVersion, page, push) ==
  IF VersionMismatch(doc.version, contentVersion)
    THEN [document |-> RefuseContent(doc), dispatched |-> FALSE]
    ELSE [document |-> MorphDocument(doc, contentVersion, page, push),
          dispatched |-> TRUE]

\* The entry of the documentMount() log.
Mount(contentVersion, page, push) ==
  [page |-> page, push |-> push, contentVersion |-> contentVersion]

\* A documentMount() call as a step: the "DOMContentLoaded" listener of
\* line 70 runs when the event is dispatched.
MountStep(doc, contentVersion, page, push) ==
  LET result == DocumentMount(doc, contentVersion, page, push)
  IN /\ mounts' = Append(mounts, Mount(contentVersion, page, push))
     /\ dispatches' = dispatches + (IF result.dispatched THEN 1 ELSE 0)
     /\ inSubmit' = IF result.dispatched THEN FALSE ELSE inSubmit

DocumentInitial ==
  /\ document \in
       {[version |-> v, page |-> FirstPage, banners |-> <<>>,
         progressBars |-> {}, modified |-> FALSE,
         htmlIsModified |-> "undefined"] : v \in Versions}
  /\ inSubmit = FALSE
  /\ dispatches = 0
  /\ mounts = <<>>
  /\ history = <<>>

(***************************************************************************)
(*                              liveNavigate()                             *)
(*                                                                         *)
(* A liveNavigate() call is known by its place in `navs`, and so is the    *)
(* AbortController it creates.  A call that is suspended at `await         *)
(* fetch()` or `await response.text()` resumes in a later step; a call     *)
(* that has returned holds nothing any more.                               *)
(***************************************************************************)

\* liveNavigate() calls a behaviour makes at most.
MaxNavigations == 3

Methods == {"GET", "POST"}

\* A call that has returned, at the guard or at the end.  History: `differs`
\* is what the comparison of the response URL with window.location gave,
\* when the call came to it.
Returned ==
  [trigger |-> "", method |-> "", pc |-> "returned", aborted |-> FALSE,
   differs |-> FALSE]

\* The calls suspended at one of the two awaits.
Suspended(ns) == {i \in 1 .. Len(ns) : ns[i].pc \in {"fetch", "text"}}

\* The calls in flight whose AbortController has not been aborted.
InFlight(ns) == {i \in Suspended(ns) : ~ns[i].aborted}

\* event instanceof PopStateEvent
Supersedes(trigger) == trigger = "popstate"

\* A guard that lets a click through while a navigation holds the token.
Busy_Never == FALSE

\* liveNavigate.abortController !== undefined
Busy == abortController # 0

\* !liveNavigate.inSubmit && isModified(document.querySelector("html")):
\* confirm() is called.
Asks(submitting) == ~submitting /\ IsModified(document)

\* liveNavigate.abortController?.abort() of a back/forward navigation.
Abort(ns) ==
  IF abortController # 0
    THEN [ns EXCEPT ![abortController].aborted = TRUE]
    ELSE ns

\* liveNavigate(request, event) up to `await fetch()`, or to its early
\* return.  `submitting` is liveNavigate.inSubmit as the capture listener
\* of "submit" left it; `answer` is what confirm() returns if it is called.
LiveNavigate(trigger, method, submitting, answer) ==
  LET id == Len(navs) + 1
      asks == ~Supersedes(trigger) /\ ~Busy /\ Asks(submitting)
      returns == ~Supersedes(trigger) /\ (Busy \/ (asks /\ ~answer))
      nav == IF returns THEN Returned
             ELSE [trigger |-> trigger, method |-> method, pc |-> "fetch",
                   aborted |-> FALSE, differs |-> FALSE]
  IN /\ Len(navs) < MaxNavigations
     /\ inSubmit' = submitting
     /\ prompts' = prompts + (IF asks THEN 1 ELSE 0)
     /\ navs' = Append(IF Supersedes(trigger) THEN Abort(navs) ELSE navs,
                       nav)
     /\ abortController' = IF returns THEN abortController ELSE id
     /\ document' = IF returns THEN document
                    ELSE [document EXCEPT !.progressBars = @ \cup {id}]
     \* liveConnection.backgroundJob?.stop()
     /\ IF ~returns /\ state # "initial"
          THEN HandleStop ELSE UNCHANGED jobVars
     /\ UNCHANGED <<dispatches, mounts, history, rejections, session>>

\* The "click" listener on a same-origin link.
Click ==
  \E answer \in BOOLEAN : LiveNavigate("click", "GET", inSubmit, answer)

\* The two "submit" listeners on a valid same-origin form: the capture
\* listener sets liveNavigate.inSubmit, the other calls liveNavigate().
Submit ==
  \E method \in Methods : LiveNavigate("submit", method, TRUE, TRUE)

\* The "popstate" listener.
PopState == LiveNavigate("popstate", "GET", inSubmit, TRUE)

\* progressBar.remove()
RemoveProgressBar(doc, id) == [doc EXCEPT !.progressBars = @ \ {id}]

\* A finally block that leaves the token in place.
ClearToken_Forgotten(id) == abortController

\* delete liveNavigate.abortController
ClearToken(id) == 0

\* A catch block that takes every failure for a failure to report.
IsAbortError_Never(nav) == FALSE

\* error.name === "AbortError": the await rejected because the signal of
\* this call's AbortController was aborted.
IsAbortError(nav) == nav.aborted

\* A catch block that pushes after a back/forward navigation too.
PushOnFailure_AnyTrigger(nav) == nav.method = "GET"

\* !(event instanceof PopStateEvent) && request.method === "GET"
PushOnFailure(nav) == ~Supersedes(nav.trigger) /\ nav.method = "GET"

\* A success path that pushes whatever the response URL is.
PushOnSuccess_Always(differs) == TRUE

\* window.location.pathname !== responseURL.pathname ||
\* window.location.search !== responseURL.search
PushOnSuccess(differs) == differs

\* `await fetch()` resolves.
FetchResolves ==
  \E id \in InFlight(navs) :
    /\ navs[id].pc = "fetch"
    /\ navs' = [navs EXCEPT ![id].pc = "text"]
    /\ UNCHANGED <<jobVars, docVars, abortController, prompts, rejections,
                   session>>

\* `await response.text()` resolves: the rest of the try block, then the
\* finally block.  `differs` says whether the response's path or query
\* differ from window.location's.
TextResolves ==
  \E id \in InFlight(navs), differs \in BOOLEAN, contentVersion \in Versions :
    LET page == Page("navigation", id)
        mounted == DocumentMount(document, contentVersion, page, FALSE)
    IN /\ navs[id].pc = "text"
       /\ navs' = [navs EXCEPT ![id] = [Returned EXCEPT !.differs = differs]]
       /\ history' = IF PushOnSuccess(differs)
                       THEN Append(history, "response") ELSE history
       /\ MountStep(document, contentVersion, page, FALSE)
       /\ document' = RemoveProgressBar(mounted.document, id)
       /\ abortController' = ClearToken(id)
       /\ UNCHANGED <<jobVars, prompts, rejections, session>>

\* What the catch block of liveNavigate() does to the document for a failure
\* that is no AbortError.
ShowNavigationError(doc) ==
  [doc EXCEPT !.banners = InsertBanner(RemoveFirstBanner(@),
                                       Banner("navigation", FALSE))]

\* `await response.text()` resolves and documentMount() throws out of
\* morph(), after the history entry of the try block was pushed: the catch
\* block, then the finally block.  morph() had changed the document as far
\* as it came: not at all, or all of it (`morphed`).  `mounts` logs the
\* documentMount() calls that returned, so this one is not in it.
MountThrows ==
  \E id \in InFlight(navs), differs \in BOOLEAN, contentVersion \in Versions,
     morphed \in BOOLEAN :
    LET nav == navs[id]
        page == Page("navigation", id)
        left == IF morphed
                  THEN MorphDocument(document, contentVersion, page, FALSE)
                  ELSE document
        pushed == IF PushOnSuccess(differs)
                    THEN Append(history, "response") ELSE history
    IN /\ nav.pc = "text"
       /\ ~VersionMismatch(document.version, contentVersion)
       /\ navs' = [navs EXCEPT ![id] = [Returned EXCEPT !.differs = differs]]
       /\ history' = IF PushOnFailure(nav)
                       THEN Append(pushed, "request") ELSE pushed
       /\ rejections' = rejections + 1
       /\ document' = RemoveProgressBar(ShowNavigationError(left), id)
       /\ abortController' = ClearToken(id)
       /\ UNCHANGED <<jobVars, inSubmit, dispatches, mounts, prompts,
                      session>>

\* One of the two awaits rejects: with an AbortError when the signal was
\* aborted, else with the failure of the request.  The catch block, then
\* the finally block.
AwaitRejects ==
  \E id \in Suspended(navs) :
    LET nav == navs[id]
        silent == IsAbortError(nav)
        shown == IF silent THEN document ELSE ShowNavigationError(document)
    IN /\ navs' = [navs EXCEPT ![id] = Returned]
       /\ history' = IF ~silent /\ PushOnFailure(nav)
                       THEN Append(history, "request") ELSE history
       /\ rejections' = rejections + (IF silent THEN 0 ELSE 1)
       /\ document' = RemoveProgressBar(shown, id)
       /\ abortController' = ClearToken(id)
       /\ UNCHANGED <<jobVars, inSubmit, dispatches, mounts, prompts, session>>

\* The user changes a form field.
Edit ==
  /\ ~document.modified
  /\ document' = [document EXCEPT !.modified = TRUE]
  /\ UNCHANGED <<jobVars, inSubmit, dispatches, mounts, history, navVars,
                 session>>

NavInitial ==
  /\ abortController = 0
  /\ navs = <<>>
  /\ prompts = 0
  /\ rejections = 0

(***************************************************************************)
(*                             liveConnection()                            *)
(*                                                                         *)
(* The job of the reconnect backgroundJob() is one connection attempt.     *)
(* `session` holds the closure of liveConnection() and where the attempt   *)
(* in flight is suspended: at `await fetch()` or at `await                 *)
(* responseBodyReader.read()`.                                             *)
(***************************************************************************)

\* Connection attempts, decoded records and liveConnection() calls a
\* behaviour has at most.
MaxAttempts == 3
MaxRecords == 3
MaxCalls == 2

\* Lines a chunk of the response body may hold at most.
MaxLines == 2

\* An empty line of the body.
Blank == "blank"

\* A line of the body: empty, or a document whose version marker is v.
Lines == {Blank} \cup Versions

\* What one chunk of the body carries, as whole lines.
Chunks == UNION {[1 .. n -> Lines] : n \in 1 .. MaxLines}

\* A record the reader hands out: the n-th document the session decoded.
Record(contentVersion, n) == [contentVersion |-> contentVersion, n |-> n]

\* new utilities.JSONLinesTransformStream(): one record per non-empty line,
\* in the order of the lines; `decoded` counts the records before this chunk.
JSONLinesTransformStream(chunk, decoded) ==
  LET documents == SelectSeq(chunk, LAMBDA line : line # Blank)
  IN [i \in 1 .. Len(documents) |-> Record(documents[i], decoded + i)]

\* The closure before liveConnection() is called.  `aborted` is the signal
\* of the attempt's AbortController.  History: `decoded` (the records the
\* pipeline has handed to the reader's queue, in order), `attempts`,
\* `reloads`, `calls` (of liveConnection()), and the jobs that
\* liveConnection.backgroundJob no longer refers to although nothing
\* stopped them (`orphanJobs`) with their attempts in flight
\* (`orphanAttempts`).
SessionInitial ==
  [pc |-> "none", reload |-> FALSE, reloadOnConnect |-> FALSE,
   connected |-> FALSE, aborted |-> FALSE,
   failedToConnectGlobalError |-> FALSE,
   queue |-> <<>>, decoded |-> <<>>, attempts |-> 0, reloads |-> 0,
   calls |-> 0, orphanJobs |-> 0, orphanAttempts |-> 0]

LiveIdle == session = SessionInitial

\* The job up to `await fetch()`: let connected = false, the controller,
\* the inactivity timer and the request.
Attempt(s) ==
  [s EXCEPT !.pc = "fetch", !.connected = FALSE, !.aborted = FALSE,
            !.queue = <<>>, !.attempts = @ + 1]

\* A finally block that leaves reloadOnConnect alone.
Finally_Forgets(s) == [s EXCEPT !.pc = "none"]

\* The finally block of the job.
Finally(s) == [s EXCEPT !.pc = "none", !.reloadOnConnect = s.reload]

\* The job is one that runs or sleeps.
Active(s) == s \in {"running", "runningAndMarkedForRerun", "sleeping"}

\* A slot that always looks empty.
HasJob_Never == FALSE

\* liveConnection.backgroundJob is not undefined.  stop() of the
\* backgroundJob() above calls no onStop, so nothing deletes the property
\* once it is set.
HasJob == state # "initial"

\* liveConnection.backgroundJob = utilities.backgroundJob(...): the new job
\* runs its first attempt at once; a job the property referred to before
\* goes on unreferenced.
NewJob ==
  /\ state' = "running"
  /\ inFlight' = 1
  /\ executions' = Min(executions + 1, MaxExecutions)
  /\ runCallsInFlight' = 0
  /\ lastEnd' = "none"
  /\ timeout' = NoTimeout
  /\ stopCalled' = FALSE
  /\ runCallsAfterStop' = 0
  /\ startedBy' = "backgroundJob"

\* The session after NewJob, for the call's `reload`.
NewSession(reload) ==
  Attempt([session EXCEPT
             !.reload = reload,
             !.reloadOnConnect = FALSE,
             !.orphanJobs = @ + (IF Active(state) THEN 1 ELSE 0),
             !.orphanAttempts = @ + inFlight])

\* A call that stops the job it finds.
KeepJob_Stops == HandleStop

\* `??=` with the property set: the right-hand side is not evaluated.
KeepJob == UNCHANGED jobVars

\* liveConnection(requestId, { reload }):
\* liveConnection.backgroundJob ??= utilities.backgroundJob(...).
LiveConnection(reload) ==
  /\ session.calls < MaxCalls
  /\ IF HasJob
       THEN /\ session' = [session EXCEPT !.calls = @ + 1]
            /\ KeepJob
       ELSE /\ session' = [NewSession(reload) EXCEPT !.calls = @ + 1]
            /\ NewJob

\* The reconnect timer fires: the next attempt.  (A page that is reloading
\* runs no timer any more.)
Reconnect ==
  /\ session.reloads = 0
  /\ session.attempts < MaxAttempts
  /\ TimeoutFires
  /\ session' = Attempt(session)
  /\ UNCHANGED docVars

\* An open that removes whatever global-error elements it finds.
RemoveFailedToConnect_AnyBanner(banners) == <<>>

\* liveConnection.failedToConnectGlobalError?.remove()
RemoveFailedToConnect(banners) ==
  SelectSeq(banners, LAMBDA banner : ~banner.ref)

\* The inactivity timer fires (60 s without a chunk): abortController
\* .abort().  The body is read as it arrives, so the timer finds the
\* reader's queue empty.
InactivityTimeout ==
  /\ session.pc \in {"fetch", "read"}
  /\ ~session.aborted
  /\ session.queue = <<>>
  /\ session' = [session EXCEPT !.aborted = TRUE]
  /\ UNCHANGED <<jobVars, docVars>>

\* `await fetch()` resolves with status 200: connected = true, the banner of
\* an earlier failure goes, and then either the reload or the reader.
AttemptOpens ==
  LET cleared == [document EXCEPT !.banners = RemoveFailedToConnect(@)]
      opened == [session EXCEPT !.connected = TRUE,
                                !.failedToConnectGlobalError = FALSE]
  IN /\ session.pc = "fetch"
     /\ ~session.aborted
     /\ IF session.reloadOnConnect
          THEN /\ document' = [cleared EXCEPT !.htmlIsModified = "false"]
               /\ session' = Finally([opened EXCEPT !.reloads = @ + 1])
               /\ JobReturns
          ELSE /\ document' = cleared
               /\ session' = [opened EXCEPT !.pc = "read"]
               /\ UNCHANGED jobVars
     /\ UNCHANGED <<inSubmit, dispatches, mounts, history>>

\* A catch block that shows the banner whether connected or not.
Catch_AlwaysShows(s, doc) ==
  [doc EXCEPT !.banners = InsertBanner(RemoveFirstBanner(@),
                                       Banner("connection", TRUE))]

\* The catch block of the job: `if (connected) return;`, else the banner
\* that liveConnection.failedToConnectGlobalError refers to.
Catch(s, doc) ==
  IF s.connected THEN doc
  ELSE [doc EXCEPT !.banners = InsertBanner(RemoveFirstBanner(@),
                                            Banner("connection", TRUE))]

\* A catch block that ends without an error after it showed the banner.
Rethrow_Swallowed == JobReturns

\* `throw error` at the end of the catch block: the job rejects.
Rethrow == JobThrows

\* `await fetch()` rejects (with an AbortError when the signal was aborted),
\* or resolves with another status than 200: the catch block with connected
\* false, the finally block, and the job throws.
AttemptFails ==
  /\ session.pc = "fetch"
  /\ document' = Catch(session, document)
  /\ session' = Finally([session EXCEPT !.failedToConnectGlobalError = TRUE])
  /\ Rethrow
  /\ UNCHANGED <<inSubmit, dispatches, mounts, history>>

\* A chunk of the body arrives and goes through the pipeline: the records
\* of its lines are queued for the reader.
ChunkArrives ==
  \E chunk \in Chunks :
    LET records == JSONLinesTransformStream(chunk, Len(session.decoded))
    IN /\ session.pc = "read"
       /\ ~session.aborted
       /\ Len(session.decoded) + Len(records) <= MaxRecords
       /\ session' = [session EXCEPT !.queue = @ \o records,
                                     !.decoded = @ \o records]
       /\ UNCHANGED <<jobVars, docVars>>

\* A reader that hands out the newest record first.
Read_Newest(queue) == queue[Len(queue)]

\* (await responseBodyReader.read()).value with records queued.
Read(queue) == Head(queue)

\* One turn of the while loop with a record: documentMount(responseText,
\* event) with event.detail.liveConnectionUpdate true.
ReadRecord ==
  /\ session.pc = "read"
  /\ session.queue # <<>>
  /\ LET record == Read(session.queue)
         page == Page("live", record.n)
     IN /\ MountStep(document, record.contentVersion, page, TRUE)
        /\ document' =
             DocumentMount(document, record.contentVersion, page, TRUE).document
  /\ session' = [session EXCEPT !.queue = Tail(@)]
  /\ UNCHANGED <<jobVars, history>>

\* read() has nothing more to hand out: the server closed the body (value
\* undefined, break), or read() rejects, because the signal was aborted or
\* because the body or the pipeline failed (`failed`: a network error, a
\* line that is no JSON), which takes the catch block, connected being true.
\* The finally block, and the job returns.
StreamEnds ==
  /\ session.pc = "read"
  /\ session.queue = <<>>
  /\ \E failed \in BOOLEAN :
       document' = IF session.aborted \/ failed
                     THEN Catch(session, document) ELSE document
  /\ session' = Finally(session)
  /\ JobReturns
  /\ UNCHANGED <<inSubmit, dispatches, mounts, history>>

(***************************************************************************)
(*              Properties of liveNavigate() and documentMount()           *)
(***************************************************************************)

\* This step is a liveNavigate() call.
Called == Len(navs') = Len(navs) + 1

\* The trigger of the call this step makes, when the call went past the
\* guard.  A call that returned at the guard holds no trigger: it was a click
\* or a submission, since a back/forward navigation never returns there.
Proceeds(triggers) == Called /\ navs'[Len(navs')].trigger \in triggers
ReturnsAtGuard == Called /\ navs'[Len(navs')] = Returned

\* The call `id` is suspended and returns in this step.
Ends(id) == id \in Suspended(navs) /\ navs'[id].pc = "returned"

\* C12: at most one navigation is in flight and not cancelled at any time.
C12_OneNavigationInFlight == Cardinality(InFlight(navs)) <= 1

C14_AlwaysCleansUp ==
  [][\A id \in Suspended(navs) :
       Ends(id) => /\ id \notin document'.progressBars
                   /\ abortController' = 0]_vars

\* C14's case: navigations have ended, one by mounting and one by failing,
\* and none is left.
C14_Witness ==
  /\ Len(navs) >= 2 /\ Suspended(navs) = {}
  /\ mounts # <<>> /\ rejections >= 1
  /\ abortController = 0 /\ document.progressBars = {}

\* C15: a cancelled navigation ends silently: no banner, no history entry,
\* no mount, no event, and its promise does not reject.
C15_CancellationIsSilent ==
  [][\A id \in Suspended(navs) :
       (Ends(id) /\ navs[id].aborted)
         => /\ document'.banners = document.banners
            /\ document'.page = document.page
            /\ UNCHANGED <<history, mounts, dispatches, rejections>>]_vars

\* C15's case: the navigation a back/forward navigation cancelled has ended
\* (it cleared the token), the back/forward navigation is still in flight,
\* and nothing was shown, pushed or mounted.
C15_Witness ==
  /\ Len(navs) = 2 /\ navs[1] = Returned
  /\ navs[2].trigger = "popstate" /\ 2 \in InFlight(navs)
  /\ abortController = 0
  /\ document.banners = <<>> /\ history = <<>> /\ mounts = <<>>
  /\ rejections = 0

\* The call `id` returns in this step through its catch block, for a failed
\* fetch or response.text() or for a documentMount() that threw: no
\* documentMount() call returned.
Fails(id) == Ends(id) /\ ~navs[id].aborted /\ mounts' = mounts

\* The history a failing call found when it came to its catch block: the try
\* block had pushed the response URL if it came to the comparison and the
\* URLs differed.
BeforeCatch(id) ==
  IF navs'[id].differs THEN Append(history, "response") ELSE history

\* C16: a navigation that fails otherwise, in its fetch or in its mount, ends
\* with one error banner in the document, the one it showed; its promise
\* rejects after the cleanup; and request.url is pushed exactly when the
\* method is GET and the trigger is no back/forward event.
C16_FailureIsReported ==
  [][\A id \in Suspended(navs) :
       Fails(id)
         => /\ document'.banners = <<Banner("navigation", FALSE)>>
            /\ rejections' = rejections + 1
            /\ id \notin document'.progressBars
            /\ abortController' = 0
            /\ history' =
                 IF navs[id].method = "GET" /\ navs[id].trigger # "popstate"
                   THEN Append(BeforeCatch(id), "request")
                   ELSE BeforeCatch(id)]_vars

\* C16's case: two navigations have failed, one whose URL was pushed and
\* one whose URL was not, and one banner is in the document.
C16_Witness ==
  /\ rejections >= 2
  /\ history = <<"request">>
  /\ Len(document.banners) = 1

\* C17: a click that starts a navigation while the document has modified
\* fields and no navigation is in flight prompts first; a declined prompt
\* changes nothing; submissions, back/forward navigations and calls made
\* while a navigation is in flight never prompt.
C17_UnsavedEditsGuard ==
  [][/\ (Proceeds({"click"}) /\ IsModified(document) /\ Suspended(navs) = {})
          => prompts' = prompts + 1
     /\ (ReturnsAtGuard /\ prompts' # prompts)
          => UNCHANGED <<abortController, document, state, mounts, history>>
     /\ (Proceeds({"submit", "popstate"}) \/ (Called /\ Suspended(navs) # {}))
          => prompts' = prompts]_vars

\* The latest documentMount() call.
LastMount == mounts[Len(mounts)]

\* C18: documentMount() with two version markers that differ neither morphs
\* nor dispatches: it sets <html>.isModified to false and leaves one banner;
\* with equal markers, or one missing, it morphs and dispatches once.
C18_VersionGate ==
  [][Len(mounts') = Len(mounts) + 1
       => LET to == LastMount'
          IN IF /\ document.version # Absent
                /\ to.contentVersion # Absent
                /\ document.version # to.contentVersion
               THEN /\ document'.page = document.page
                    /\ document'.version = document.version
                    /\ dispatches' = dispatches
                    /\ document'.htmlIsModified = "false"
                    /\ Len(document'.banners) = 1
               ELSE /\ document'.page = to.page
                    /\ document'.version = to.contentVersion
                    /\ dispatches' = dispatches + 1]_vars

\* C18's case: a documentMount() has morphed content into the document, and
\* a later one has refused content whose marker differs from the one the
\* document has now.
C18_Witness ==
  /\ Len(mounts) = 2
  /\ dispatches = 1
  /\ document.page = mounts[1].page
  /\ document.version = mounts[1].contentVersion
  /\ LastMount.contentVersion \notin {Absent, document.version}
  /\ document.htmlIsModified = "false"
  /\ Len(document.banners) = 1

\* The call `id` returns in this step from the end of its try block.
Succeeds(id) == Ends(id) /\ ~navs[id].aborted /\ mounts' # mounts

\* The navigation error banners of a document.
NavigationErrors(doc) ==
  {i \in 1 .. Len(doc.banners) : doc.banners[i].kind = "navigation"}

\* C32: a navigation that succeeds pushes one history entry, the response
\* URL, if and only if the path or the query of the response URL differs
\* from the current location; it calls documentMount() exactly once, on the
\* response body and as no push update; and it shows no navigation error
\* banner and rejects nothing.
C32_SuccessPushesIfDiffers ==
  [][\A id \in Suspended(navs) :
       Succeeds(id)
         => /\ history' = IF navs'[id].differs
                             THEN Append(history, "response") ELSE history
            /\ Len(mounts') = Len(mounts) + 1
            /\ SubSeq(mounts', 1, Len(mounts)) = mounts
            /\ mounts'[Len(mounts')].page = Page("navigation", id)
            /\ ~mounts'[Len(mounts')].push
            /\ Cardinality(NavigationErrors(document'))
                 <= Cardinality(NavigationErrors(document))
            /\ rejections' = rejections]_vars

\* C32's case: two navigations have succeeded, one whose response URL
\* differed from the location and one whose response URL did not; one entry
\* was pushed and both bodies were mounted.
C32_Witness ==
  /\ Len(navs) >= 2
  /\ \E i, j \in 1 .. Len(navs) :
       /\ navs[i].pc = "returned" /\ navs[i].differs
       /\ navs[j].pc = "returned" /\ ~navs[j].differs
  /\ history = <<"response">>
  /\ Len(mounts) = 2
  /\ rejections = 0

\* C37 as claimed: one navigation pushes at most one history entry, on every
\* path through liveNavigate().
C37_AtMostOnePush ==
  [][\A id \in Suspended(navs) :
       Ends(id) => Len(history') <= Len(history) + 1]_vars

\* The documentMount() calls of the live session, in order.
LiveMounts == SelectSeq(mounts, LAMBDA mount : mount.push)

\* The record a documentMount() call of the live session was handed.
Mounted(mount) == Record(mount.contentVersion, mount.page.n)

C20_BannerUntilReconnected ==
  session.failedToConnectGlobalError =>
    /\ \E i \in DOMAIN document.banners :
         document.banners[i] = Banner("connection", TRUE)
    /\ state # "stopped" => inFlight = 1 \/ timeout # NoTimeout

\* This step is `await fetch()` of the attempt resolving with status 200.
Opens == session.pc = "fetch" /\ session'.connected

\* C21: in reload mode the first attempt that opens streams and mounts
\* records without reloading; once an attempt has ended, the next attempt
\* that opens marks modification tracking clean, reloads the page and mounts
\* no record, then or later.  With reload mode off no attempt reloads.
C21_ReloadOnReconnect ==
  [][/\ Opens /\ session.reload /\ session.attempts >= 2 =>
          /\ session'.reloads = session.reloads + 1
          /\ session'.pc = "none"
          /\ document'.htmlIsModified = "false"
          /\ ~IsModified(document')
     /\ Opens /\ ~(session.reload /\ session.attempts >= 2) =>
          /\ session'.reloads = session.reloads
          /\ session'.pc = "read"
          /\ document'.htmlIsModified = document.htmlIsModified
     /\ ~Opens => session'.reloads = session.reloads
     /\ session'.reloads > 0 => mounts' = mounts]_vars

\* C21's case: in reload mode the first attempt mounted a record and ended,
\* and the second one reloaded the page over a modified form field.
C21_Witness ==
  /\ session.reload
  /\ session.attempts = 2
  /\ session.reloads = 1
  /\ Len(mounts) >= 1
  /\ document.modified

\* C22: however many times liveConnection() is called and however the calls
\* interleave with navigations, at most one reconnect job that has not been
\* stopped exists, and at most one connection attempt is in flight.
C22_OneJobOneAttempt ==
  /\ session.orphanJobs + (IF Active(state) THEN 1 ELSE 0) <= 1
  /\ session.orphanAttempts + inFlight <= 1

\* C22's case: liveConnection() has been called twice, a navigation has
\* stopped the job, and an attempt is in flight.
C22_Witness ==
  /\ session.calls >= 2
  /\ stopCalled
  /\ Len(navs) >= 1
  /\ inFlight = 1

\* This step is a liveConnection() call that finds a reconnect job.
Reinitializes == session'.calls = session.calls + 1 /\ state # "initial"

EndsAborted ==
  session.aborted /\ session.pc # "none" /\ session'.pc = "none"

\* C24 as claimed: an attempt whose fetch or stream read ends with the
\* aborted outcome, at any phase, never shows or replaces an error banner.
C24_AbortIsSilent ==
  [][EndsAborted => document'.banners = document.banners]_vars

\* C24: an attempt aborted after the connection reached open shows and
\* replaces no banner and ends without an error; an attempt aborted before
\* the connection reached open shows the connection-failure banner.
C24_AbortIsSilentOnceOpen ==
  [][EndsAborted =>
       IF session.connected
         THEN document' = document /\ lastEnd' = "ok"
         ELSE /\ document'.banners =
                   InsertBanner(RemoveFirstBanner(document.banners),
                                Banner("connection", TRUE))
              /\ lastEnd' = "error"]_vars

\* C24's case: the inactivity timer aborted an attempt that had reached
\* open, and the attempt has ended.
C24_Witness ==
  /\ session.aborted
  /\ session.connected
  /\ session.pc = "none"
  /\ lastEnd = "ok"

\* An attempt of the live session ends in this step.
AttemptEnds == session.pc # "none" /\ session'.pc = "none"

\* C33: an attempt that ends without having reached open (fetch rejected or
\* aborted, or a status other than 200) shows the connection-failure banner
\* in place of the first banner and its error propagates; an attempt that
\* reached open, however it ends (stream close, read error, malformed
\* record, abort, reload), shows no banner and raises no error.
C33_BannerIffNeverOpen ==
  [][AttemptEnds =>
       IF session'.connected
         THEN /\ document'.banners
                   \in {document.banners,
                        RemoveFailedToConnect(document.banners)}
              /\ lastEnd' = "ok"
         ELSE /\ document'.banners =
                   InsertBanner(RemoveFirstBanner(document.banners),
                                Banner("connection", TRUE))
              /\ lastEnd' = "error"]_vars

\* C33's case: the first attempt reached open, mounted a record and ended
\* without a banner; the second ended before open, and its banner is shown
\* and its error was raised.
C33_Witness ==
  /\ session.attempts = 2 /\ session.pc = "none"
  /\ ~session.connected
  /\ Len(mounts) >= 1
  /\ document.banners = <<Banner("connection", TRUE)>>
  /\ lastEnd = "error"

\* C38: once a navigation has stopped the job of the live session, no record
\* of the connection that was open then is mounted any more.  (No connection
\* is opened after the stop: liveConnection() keeps the stopped job.)
C38_NoMountAfterStop ==
  [][stopCalled => LiveMounts' = LiveMounts]_vars

\* The banner of a version mismatch is in the document.
HasVersionBanner(doc) ==
  \E i \in DOMAIN doc.banners : doc.banners[i] = Banner("version", FALSE)

\* C35 as claimed: once the version banner is in the document it stays there,
\* whatever the live session does afterwards.
C35_VersionBannerPersists ==
  [][HasVersionBanner(document) => HasVersionBanner(document')]_vars

\* C35: the version banner, once shown, is the first banner of the document;
\* an attempt that opens (a successful reconnect) and an attempt that ends
\* after open leave it in place; an attempt that ends without having reached
\* open replaces it with the connection-failure banner; a later mount that
\* morphs the document removes it, and one that finds a mismatch again shows
\* it again.
C35_VersionBannerUntilReplaced ==
  [][HasVersionBanner(document) =>
       /\ Head(document.banners) = Banner("version", FALSE)
       /\ IF AttemptEnds /\ ~session'.connected
            THEN document'.banners =
                   <<Banner("connection", TRUE)>> \o Tail(document.banners)
            ELSE IF dispatches' # dispatches
                   THEN document'.banners = <<>>
                   ELSE document'.banners = document.banners]_vars

\* C35's case: the last documentMount() of the session found a version
\* mismatch and showed its banner; the next attempt ended without reaching
\* open, and the connection-failure banner is the only banner now.
C35_Witness ==
  /\ mounts # <<>>
  /\ VersionMismatch(document.version, mounts[Len(mounts)].contentVersion)
  /\ session.attempts >= 2 /\ session.pc = "none" /\ ~session.connected
  /\ lastEnd = "error"
  /\ document.banners = <<Banner("connection", TRUE)>>

\* The k-th attempt reached open and has ended, on a page that is not
\* reloading.
EndedOpen(k) ==
  /\ session.attempts = k
  /\ session.pc = "none" /\ session.connected
  /\ session.reloads = 0

\* C34: after an attempt that reached open has ended, the reconnect job
\* eventually starts the next attempt, attempt after attempt, unless the job
\* was stopped (by a navigation).
C34_ReconnectsUntilStopped ==
  \A k \in 1 .. MaxAttempts - 1 :
    EndedOpen(k) ~> (session.attempts = k + 1 \/ state = "stopped")

\* C34's case: the timer has started the third attempt of a job that nothing
\* stopped, after two attempts that reached open and ended.
C34_Witness ==
  /\ session.attempts = 3 /\ session.pc = "fetch"
  /\ startedBy = "timeout" /\ executions = 3
  /\ state = "running" /\ ~stopCalled

(***************************************************************************)
(*            backgroundJob(element, elementProperty, options, job)        *)
(*                                                                         *)
(* The jobs started on one element and one property name.  Each is a       *)
(* utilities.backgroundJob() whose job is the wrapper                      *)
(* `if (element.isConnected) await job(); else                             *)
(* element[elementProperty].stop();`.                                      *)
(***************************************************************************)

\* backgroundJob() calls on the element and invocations of one job a
\* behaviour has at most.
MaxJobs == 3
MaxInvocations == 3

\* A utilities.backgroundJob() before its first run().  `timer` says that
\* its setTimeout() is pending, `working` that the unit of work is awaited;
\* `invocations` (of the wrapper) and `executions` (of the unit of work) are
\* history.
NewElementJob ==
  [state |-> "initial", timer |-> FALSE, working |-> FALSE,
   invocations |-> 0, executions |-> 0]

\* stop() of a job.
Stopped(j) ==
  [j EXCEPT !.state = "stopped",
            !.timer = IF j.state = "sleeping" THEN FALSE ELSE j.timer]

\* run() after `await job()` returned: the next setTimeout(), unless the job
\* was stopped.
Rescheduled(j) ==
  IF j.state \in {"running", "runningAndMarkedForRerun"}
    THEN [j EXCEPT !.state = "sleeping", !.timer = TRUE]
    ELSE j

\* An element[elementProperty]?.stop() that is left out.
StopPrevious_Skipped(jobs, ref) == jobs

\* element[elementProperty]?.stop()
StopPrevious(jobs, ref) ==
  IF ref = 0 THEN jobs ELSE [jobs EXCEPT ![ref] = Stopped(@)]

\* run() of job i up to the end of the wrapper's synchronous part, `ref`
\* being what element[elementProperty] refers to (0 for undefined).  On a
\* connected element the unit of work starts.  On a detached one
\* element[elementProperty].stop() stops the job the property refers to and
\* the wrapper returns; with the property undefined the call throws a
\* TypeError, the wrapper rejects and run() ends without a timer.
Invoked(jobs, i, ref, connected) ==
  LET running == [jobs EXCEPT ![i].state = "running",
                              ![i].timer = FALSE,
                              ![i].invocations = @ + 1]
  IN IF connected
       THEN [running EXCEPT ![i].working = TRUE, ![i].executions = @ + 1]
       ELSE IF ref = 0
              THEN running
              ELSE LET stopped == [running EXCEPT ![ref] = Stopped(@)]
                   IN [stopped EXCEPT ![i] = Rescheduled(@)]

\* backgroundJob(element, elementProperty, options, job): the previous job
\* is stopped, utilities.backgroundJob() runs the new one at once, while the
\* property still refers to the previous one, and then the property is
\* assigned.
ElementBackgroundJob ==
  LET i == Len(slot.jobs) + 1
      previous == StopPrevious(slot.jobs, slot.ref)
  IN /\ Len(slot.jobs) < MaxJobs
     /\ slot' = [slot EXCEPT
                   !.jobs = Invoked(Append(previous, NewElementJob), i,
                                    slot.ref, slot.connected),
                   !.ref = i]

\* The timer of a job fires: run().
ElementTimeoutFires ==
  \E i \in 1 .. Len(slot.jobs) :
    /\ slot.jobs[i].timer
    /\ slot.jobs[i].invocations < MaxInvocations
    /\ slot' = [slot EXCEPT
                  !.jobs = Invoked(slot.jobs, i, slot.ref, slot.connected)]

\* The unit of work of a job returns and run() resumes.
ElementJobReturns ==
  \E i \in 1 .. Len(slot.jobs) :
    /\ slot.jobs[i].working
    /\ slot' = [slot EXCEPT
                  !.jobs[i] = Rescheduled([@ EXCEPT !.working = FALSE])]

\* The element is removed from the document, or inserted into it.
ElementMoves == slot' = [slot EXCEPT !.connected = ~@]

SlotInitial ==
  slot \in {[connected |-> c, ref |-> 0, jobs |-> <<>>] : c \in BOOLEAN}

\* No backgroundJob() is called on an element.
SlotIdle == slot = [connected |-> TRUE, ref |-> 0, jobs |-> <<>>]

(***************************************************************************)
(*                                intern()                                 *)
(*                                                                         *)
(* The heap holds the objects intern() has seen, by reference: 0 stands    *)
(* for undefined.  The tree of InternNodes under intern.rootInternNode is  *)
(* the set of the paths of its nodes, a path being the entries that lead   *)
(* from the root to the node.                                              *)
(***************************************************************************)

MaxInterns == 3
MaxLength == 2

Numbers == {1, 2}

\* The property names of arrays, by index, and those of records in the
\* order of localeCompare().
IndexNames == <<"0", "1", "2", "3">>
LocaleOrder == <<"a", "b">>

\* Inner values: a primitive, or a reference to an object of the heap.
Number(n) == [type |-> "number", v |-> n]
Reference(r) == [type |-> "object", v |-> r]

\* An array or a plain object as the caller wrote it: its own properties as
\* <<name, value>> in the order Object.entries() lists them.
Value(kind, properties) == [kind |-> kind, properties |-> properties]
Array(values) ==
  Value("tuple", [i \in DOMAIN values |-> <<IndexNames[i], values[i]>>])

HeapObject(value, interned) ==
  [kind |-> value.kind, properties |-> value.properties,
   interned |-> interned, collected |-> FALSE]

\* nullTuple and nullRecord, and a `{}` that was never interned.
NullTuple == 1
NullRecord == 2
PlainObject == 3

PoolInitial ==
  [heap |-> <<HeapObject(Value("tuple", <<>>), TRUE),
              HeapObject(Value("record", <<>>), TRUE),
              HeapObject(Value("record", <<>>), FALSE)>>,
   nodes |-> {<<>>},
   finalValue |-> {},
   registry |-> {},
   held |-> {},
   log |-> <<>>]

\* typeof innerValue is a primitive's, or innerValue[internSymbol] === true
Internable(heap, value) == value.type # "object" \/ heap[value.v].interned

\* value.entries(): the keys are numbers.
ArrayEntries(properties) ==
  [i \in DOMAIN properties |->
     <<<<"number", properties[i][1]>>, properties[i][2]>>]

Position(name) == CHOOSE i \in DOMAIN LocaleOrder : LocaleOrder[i] = name

\* .sort(([aKey], [bKey]) => aKey.localeCompare(bKey))
RECURSIVE Sorted(_)
Sorted(properties) ==
  IF properties = <<>>
    THEN <<>>
    ELSE LET first == CHOOSE i \in DOMAIN properties :
                        \A j \in DOMAIN properties :
                          Position(properties[i][1]) <=
                            Position(properties[j][1])
         IN <<properties[first]>> \o Sorted(RemoveAt(properties, first))

\* Object.entries(value) taken as they come.
ObjectEntries_Unsorted(properties) ==
  [i \in DOMAIN properties |->
     <<<<"string", properties[i][1]>>, properties[i][2]>>]

\* Object.entries(value).sort(...): the keys are strings.
ObjectEntries(properties) ==
  [i \in DOMAIN properties |->
     <<<<"string", Sorted(properties)[i][1]>>, Sorted(properties)[i][2]>>]

Entries(value) ==
  IF value.kind = "tuple"
    THEN ArrayEntries(value.properties)
    ELSE ObjectEntries(value.properties)

\* The nodes the walk from the root visits, creating those that are missing.
Walked(entries) == {SubSeq(entries, 1, n) : n \in 0 .. Len(entries)}

\* WeakRef.prototype.deref()
Deref(heap, ref) == IF heap[ref].collected THEN 0 ELSE ref

\* intern(value): the internPool afterwards, and what the call returned.
Intern(p, value) ==
  LET entries == Entries(value)
      found == {f \in p.finalValue : f.node = entries}
      ref == Len(p.heap) + 1
      walked == [p EXCEPT !.nodes = @ \cup Walked(entries)]
  IN IF \E i \in DOMAIN value.properties :
          ~Internable(p.heap, value.properties[i][2])
       THEN [after |-> p, outcome |-> "threw", result |-> 0]
       ELSE IF entries = <<>>
         THEN [after |-> walked, outcome |-> "returned",
               result |-> IF value.kind = "tuple"
                            THEN NullTuple ELSE NullRecord]
         ELSE IF found # {}
           THEN [after |-> walked, outcome |-> "returned",
                 result |-> Deref(p.heap, (CHOOSE f \in found : TRUE).ref)]
           ELSE [after |->
                   [walked EXCEPT
                      !.heap = Append(@, HeapObject(value, TRUE)),
                      !.finalValue = @ \cup {[node |-> entries, ref |-> ref]},
                      !.registry = @ \cup {[node |-> entries, ref |-> ref]}],
                 outcome |-> "returned", result |-> ref]

Primitives == {Number(n) : n \in Numbers}

\* Sequences without repetition of at most n of the names.
NameLists(n) ==
  {names \in UNION {[1 .. k -> Range(LocaleOrder)] : k \in 0 .. n} :
     \A i, j \in DOMAIN names : names[i] = names[j] => i = j}

\* What the program passes to intern(): tuples and records of primitives,
\* and [1, x] for an object x it holds, interned or not.
Arguments(p) ==
  {Array(values) :
     values \in UNION {[1 .. n -> Primitives] : n \in 0 .. MaxLength}}
  \cup
  UNION {{Value("record", [i \in DOMAIN names |-> <<names[i], values[i]>>]) :
            values \in [DOMAIN names -> Primitives]} :
         names \in NameLists(Min(MaxLength, Len(LocaleOrder)))}
  \cup
  {Array(<<Number(1), Reference(r)>>) :
     r \in p.held \cup {NullRecord, PlainObject}}

\* The program calls intern() and keeps what it returns.
CallIntern ==
  /\ Len(internPool.log) < MaxInterns
  /\ \E value \in Arguments(internPool) :
       LET call == Intern(internPool, value)
       IN internPool' = [call.after EXCEPT
                     !.log = Append(@, [argument |-> value,
                                        outcome |-> call.outcome,
                                        result |-> call.result]),
                     !.held = IF call.result > PlainObject
                                THEN @ \cup {call.result} ELSE @]

\* The program forgets a reference it held.
Drop ==
  \E r \in internPool.held : internPool' = [internPool EXCEPT !.held = @ \ {r}]

\* The garbage collector reclaims an interned value that nothing refers to
\* strongly: not the program, and not the tree, whose Maps have the inner
\* values as keys.
Collect ==
  \E r \in DOMAIN internPool.heap :
    /\ r > PlainObject
    /\ ~internPool.heap[r].collected
    /\ r \notin internPool.held
    /\ \A node \in internPool.nodes :
         \A i \in DOMAIN node : node[i][2] # Reference(r)
    /\ internPool' = [internPool EXCEPT !.heap[r].collected = TRUE]

HasChildren(nodes, node) ==
  \E n \in nodes : Len(n) = Len(node) + 1 /\ SubSeq(n, 1, Len(node)) = node

\* The callback of intern.finalizationRegistry, from `node` up to the root.
RECURSIVE Prune(_, _, _)
Prune(nodes, finalValue, node) ==
  IF node = <<>>
    THEN nodes
    ELSE LET kept == IF /\ ~HasChildren(nodes, node)
                        /\ ~\E f \in finalValue : f.node = node
                       THEN nodes \ {node}
                       ELSE nodes
         IN Prune(kept, finalValue, SubSeq(node, 1, Len(node) - 1))

\* The finalization registry calls back for a value that was collected.
Finalize ==
  \E registration \in internPool.registry :
    /\ internPool.heap[registration.ref].collected
    /\ internPool' = [internPool EXCEPT
                  !.nodes = Prune(@, internPool.finalValue, registration.node),
                  !.registry = @ \ {registration}]

\* intern() is never called.
PoolIdle == internPool = PoolInitial

AuxIdle == SlotIdle /\ PoolIdle

(***************************************************************************)
(*                                 mount()                                 *)
(*                                                                         *)
(* mount(element, content, event), and then a push update of the document  *)
(* that holds the container.  execute() runs the functions registered for  *)
(* the [javascript] attributes, which the trees here do not have.          *)
(***************************************************************************)

\* A mount() that does not delete the property.
Unprotect_Skipped(node) == node

\* delete element.liveConnectionUpdate
Unprotect(node) == [node EXCEPT !.liveConnectionUpdate = Undefined]

\* A mount() that does not set the property.
Protect_Skipped(node) == node

\* element.liveConnectionUpdate = false
Protect(node) == [node EXCEPT !.liveConnectionUpdate = False]

\* mount(element, content, event) is about to be called.
MountInitial ==
  /\ \E input \in PinningInputs :
       /\ element = Identified(input.from, "from", <<>>)
       /\ content = Identified(input.to, "to", <<>>)
       /\ outer = input.outer
  /\ event \in BOOLEAN
  /\ bias \in Biases
  /\ pc = "mount"
  /\ element0 = element
  /\ ops = {}
  /\ calls = {}

\* The call mount(element, content, event), whole: the property is deleted,
\* morph() runs with the event it was given, and the property is set.
CallMount ==
  /\ pc = "mount"
  /\ LET result == Morph(Unprotect(element), content, event, outer, bias)
     IN /\ element' = Protect(result.node)
        /\ ops' = result.ops
        /\ calls' = result.calls
  /\ pc' = "mounted"
  /\ UNCHANGED <<content, event, outer, bias, element0>>

\* The element that holds the container in the document.
Holder(childNodes) ==
  [Element("BODY", <<>>, Undefined, NoProperties, childNodes)
     EXCEPT !.id = [side |-> "holder", path |-> <<>>]]

\* What a later response has where the container is: an element with the
\* container's key, an element with another key, both in either order, or
\* nothing.
PushedSiblings ==
  {Div([style |-> "pushed"], <<Text("pushed")>>),
   Div([key |-> "w", style |-> "pushed"], <<Text("changed")>>)}

PushedContents ==
  {Identified(Element("BODY", <<>>, Undefined, NoProperties, children),
              "pushed", <<>>) :
     children \in Arrangements(PushedSiblings, MaxPinnedChildren)}

\* A node of the tree by its identity, NoNode when it is not there.
Find(node, id) ==
  IF id \in IdsOf(node) THEN CHOOSE n \in NodesOf(node) : n.id = id ELSE NoNode

\* A later push update: documentMount(content, event) with
\* event.detail.liveConnectionUpdate true reaches the element that holds the
\* container.
PushUpdate ==
  /\ pc = "mounted"
  /\ \E pushed \in PushedContents :
       LET result == Morph(Holder(<<element>>), pushed, TRUE, outer, bias)
       IN /\ element' = Find(result.node, element.id)
          /\ ops' = result.ops
          /\ calls' = result.calls
          /\ content' = pushed
  /\ pc' = "pushed"
  /\ UNCHANGED <<event, outer, bias, element0>>

(***************************************************************************)
(*                          Properties of mount()                          *)
(***************************************************************************)

\* C25: after mount() returns the container's liveConnectionUpdate is false,
\* whatever it was before, and a later push update leaves the container,
\* its attributes and all of its descendants as they are: the container
\* stays where it is and no DOM mutation touches it or anything in it.
C25_MountedIsProtected ==
  [][/\ pc' \in {"mounted", "pushed"} =>
          element'.liveConnectionUpdate = False
     /\ pc' = "pushed" =>
          /\ element' = element
          /\ \A o \in ops' :
               o.node \notin IdsOf(element) /\ o.parent \notin IdsOf(element)]_vars

\* C25's case: a container that was not pinned has been mounted and changed
\* by it, and a push update whose content has an element with the
\* container's key, other attributes and other children has gone by.
C25_Witness ==
  /\ pc = "pushed"
  /\ element0.liveConnectionUpdate # False
  /\ Markup(element) # Markup(element0)
  /\ \E call \in calls :
       /\ call.from = element.id
       /\ Markup(NodeAt(content, call.to.path)).childNodes
            # Markup(element).childNodes

\* The names that the liveConnectionUpdate sets above the element at `path`
\* of the container name once mount() has deleted the container's own.
MountNamedFor(path) ==
  outer \cup UNION {Names(NodeAt(element0, SubSeq(path, 1, k))) :
                      k \in 1 .. Len(path)}

\* The protected attributes and properties of a reused element follow the
\* target with semantics `push`.
MountedAs(call, push) ==
  LET old == FromThen(call)
      new == FromNow(call)
      target == ToThen(call)
      named == MountNamedFor(call.from.path)
  IN /\ \A a \in Protected :
          AttributeOf(new, a) =
            AttributeOf(IF push /\ a \notin named THEN old ELSE target, a)
     /\ MatchesInputTextarea(old) =>
          \A p \in InputProperties :
            new.properties[p] =
              (IF push /\ p \notin named THEN old ELSE target).properties[p]

\* No child of the element is there only because it is pinned.
NoPinnedOrphanLeft(call) ==
  \A k \in PinnedOrphans(FromThen(call), ToThen(call)) :
    FromThen(call).childNodes[k].id \notin ChildIds(FromNow(call))

\* The morph() call of mount() on the container itself.
ContainerCall == Call(element0, content)

\* C26 as claimed: whatever event is passed, after mount() the protected
\* attributes of the container and of its reused descendants are the
\* content's, and no descendant is kept only because it is pinned.
C26_MountIsNonPush ==
  pc = "mounted" =>
    \A call \in calls : MountedAs(call, FALSE) /\ NoPinnedOrphanLeft(call)

\* C26: mount() reconciles the container, pinned or not, with the semantics
\* of the event it is passed.  Without a push event the protected attributes
\* of the container and of its reused descendants are the content's and no
\* descendant is kept only because it is pinned; with a push event they are
\* kept as in a push update, pinned descendants stay as they are, and the
\* children of the content are in the container.
C26_MountFollowsEvent ==
  pc = "mounted" =>
    /\ ContainerCall \in calls
    /\ Range(Keys(content.childNodes)) \subseteq Range(Keys(element.childNodes))
    /\ \A call \in calls :
         IF call # ContainerCall /\ ShortCircuit(FromThen(call), event)
           THEN FromNow(call) = FromThen(call)
           ELSE /\ MountedAs(call, event)
                /\ ~event => NoPinnedOrphanLeft(call)
                /\ event =>
                     \A k \in PinnedOrphans(FromThen(call), ToThen(call)) :
                       FromThen(call).childNodes[k].id \in ChildIds(FromNow(call))

\* C26's case: a pinned container has been mounted with a push event; its
\* children were changed, and a pinned child that the content does not have
\* is still there.
C26_Witness ==
  /\ pc = "mounted" /\ event
  /\ element0.liveConnectionUpdate = False
  /\ ops # {}
  /\ PinnedOrphans(element0, content) # {}
  /\ \A k \in PinnedOrphans(element0, content) :
       element0.childNodes[k].id \in ChildIds(element)

(***************************************************************************)
(*        Properties of backgroundJob(element, elementProperty, ...)       *)
(***************************************************************************)

\* C27: starting a new job on an element and property stops the job held
\* there first: no job but the newest is invoked again, in the step that
\* starts a job or later, and the property refers to the newest job.
C27_PreviousJobStopped ==
  [][/\ slot'.ref = Len(slot'.jobs)
     /\ \A i \in 1 .. Len(slot.jobs) :
          i < Len(slot'.jobs) =>
            slot'.jobs[i].invocations = slot.jobs[i].invocations]_vars

\* C27's case: a job that had run and was sleeping has been replaced, and the
\* new job has been invoked again since.
C27_Witness ==
  /\ Len(slot.jobs) = 2
  /\ slot.ref = 2
  /\ slot.jobs[1].executions >= 1
  /\ slot.jobs[1].state = "stopped"
  /\ ~slot.jobs[1].timer
  /\ slot.jobs[2].invocations >= 2

\* C28: at the start of every invocation of a job, the first one included,
\* if the element is detached the unit of work is not run and the job
\* becomes stopped; and a stopped job is not invoked again.
C28_DetachedStops ==
  [][\A i \in 1 .. Len(slot'.jobs) :
       LET before == IF i <= Len(slot.jobs) THEN slot.jobs[i] ELSE NewElementJob
           after == slot'.jobs[i]
       IN /\ (after.invocations > before.invocations /\ ~slot.connected) =>
               /\ after.executions = before.executions
               /\ after.state = "stopped"
          /\ before.state = "stopped" =>
               after.invocations = before.invocations]_vars

\* C40: of the jobs started on one element and property, at most one has its
\* unit of work in flight at any time.
C40_OneUnitOfWork ==
  Cardinality({i \in 1 .. Len(slot.jobs) : slot.jobs[i].working}) <= 1

\* C30: run() called while the job is sleeping cancels the pending timer and
\* starts an execution at once, the only one then in flight.  The cancelled
\* timer never fires: no timer is pending while that execution is in flight,
\* and the next timer is armed only by the step that completes it.
C30_RunCutsSleepShort ==
  [][/\ (state = "sleeping" /\ state' = "running" /\ startedBy' = "run") =>
          (timeout' = NoTimeout /\ inFlight = 0 /\ inFlight' = 1)
     /\ (startedBy' = "run" /\ inFlight' > 0) => timeout' = NoTimeout
     /\ (startedBy = "run" /\ timeout = NoTimeout /\ timeout' # NoTimeout) =>
          (inFlight = 1 /\ inFlight' = 0)]_vars

\* C30's case: the execution that run() started while the job was sleeping
\* has completed, and the job sleeps again until the timer armed after it.
C30_Witness ==
  /\ startedBy = "run"
  /\ state = "sleeping"
  /\ timeout # NoTimeout
  /\ inFlight = 0
  /\ lastEnd = "ok"
  /\ executions >= 2

(***************************************************************************)
(*                         Properties of intern()                          *)
(***************************************************************************)

\* Tuples with the same elements in the same order, or records with the same
\* key/value pairs in any order.  Inner objects are the same when they are
\* the same reference.
StructurallyEqual(a, b) ==
  /\ a.kind = b.kind
  /\ IF a.kind = "tuple"
       THEN a.properties = b.properties
       ELSE Range(a.properties) = Range(b.properties)

\* The calls of intern() that returned a value that is still there to be
\* compared.
Comparable ==
  {i \in DOMAIN internPool.log :
     /\ internPool.log[i].outcome = "returned"
     /\ internPool.log[i].result # 0
     /\ ~internPool.heap[internPool.log[i].result].collected}

\* C29: intern() is canonical.  Two calls of intern() return the identical
\* reference if and only if their arguments are structurally equal: tuples
\* with the same elements in the same order, or records with the same
\* key/value pairs whatever the order of the keys.  Arguments with different
\* contents, and a tuple and a record, get different references.
C29_InternIsCanonical ==
  \A i, j \in Comparable :
    (internPool.log[i].result = internPool.log[j].result)
      <=> StructurallyEqual(internPool.log[i].argument,
                            internPool.log[j].argument)

\* Two records written with their keys in different orders got one
\* reference, and a tuple got another one.
C29_Witness ==
  \E i, j, k \in Comparable :
    /\ internPool.log[i].argument.kind = "record"
    /\ internPool.log[j].argument.kind = "record"
    /\ internPool.log[i].argument # internPool.log[j].argument
    /\ internPool.log[i].result = internPool.log[j].result
    /\ internPool.log[i].result > PlainObject
    /\ internPool.log[k].argument.kind = "tuple"
    /\ internPool.log[k].result > PlainObject
    /\ internPool.log[k].result # internPool.log[i].result

\* C36: when the finalization callback has run for the node of a value that
\* was collected, the tree holds no node that was there for that value only:
\* the node is gone unless it has children, which lead to other values.
C36_FinalizationPrunes ==
  [][\A registration \in internPool.registry \ internPool'.registry :
       \/ registration.node \notin internPool'.nodes
       \/ HasChildren(internPool'.nodes, registration.node)]_vars

\* C39: a call of intern() that returns, returns a value: never undefined,
\* whatever was collected or finalized before the call.
C39_NeverUndefined ==
  \A i \in DOMAIN internPool.log :
    internPool.log[i].outcome = "returned" => internPool.log[i].result # 0

(***************************************************************************)
(*                             Specifications                              *)
(***************************************************************************)

\* The live session as the other specifications leave it: liveConnection()
\* has not been called.
PageIdle == DocumentInitial /\ NavInitial /\ LiveIdle /\ document.version = Absent

JobInit == JobInitial /\ MorphIdle /\ PageIdle /\ AuxIdle

JobNext ==
  \/ Start /\ UNCHANGED <<morphVars, pageVars, auxVars>>
  \/ JobReturns /\ UNCHANGED <<morphVars, pageVars, auxVars>>
  \/ JobThrows /\ UNCHANGED <<morphVars, pageVars, auxVars>>
  \/ TimeoutFires /\ UNCHANGED <<morphVars, pageVars, auxVars>>
  \/ HandleRun /\ UNCHANGED <<morphVars, pageVars, auxVars>>
  \/ HandleStop /\ UNCHANGED <<morphVars, pageVars, auxVars>>

JobSpec == JobInit /\ [][JobNext]_vars

MorphInit == MorphInitial /\ JobInitial /\ PageIdle /\ AuxIdle

MorphNext == CallMorph /\ UNCHANGED <<jobVars, pageVars, auxVars>>

MorphSpec == MorphInit /\ [][MorphNext]_vars

MountInit == MountInitial /\ JobInitial /\ PageIdle /\ AuxIdle

MountNext ==
  \/ CallMount /\ UNCHANGED <<jobVars, pageVars, auxVars>>
  \/ PushUpdate /\ UNCHANGED <<jobVars, pageVars, auxVars>>

MountSpec == MountInit /\ [][MountNext]_vars

SlotInit == SlotInitial /\ JobInitial /\ MorphIdle /\ PageIdle /\ PoolIdle

SlotNext ==
  \/ ElementBackgroundJob /\ UNCHANGED <<jobVars, morphVars, pageVars, internPool>>
  \/ ElementTimeoutFires /\ UNCHANGED <<jobVars, morphVars, pageVars, internPool>>
  \/ ElementJobReturns /\ UNCHANGED <<jobVars, morphVars, pageVars, internPool>>
  \/ ElementMoves /\ UNCHANGED <<jobVars, morphVars, pageVars, internPool>>

SlotSpec == SlotInit /\ [][SlotNext]_vars

InternInit ==
  internPool = PoolInitial /\ JobInitial /\ MorphIdle /\ PageIdle /\ SlotIdle

InternNext ==
  \/ CallIntern /\ UNCHANGED <<jobVars, morphVars, pageVars, slot>>
  \/ Drop /\ UNCHANGED <<jobVars, morphVars, pageVars, slot>>
  \/ Collect /\ UNCHANGED <<jobVars, morphVars, pageVars, slot>>
  \/ Finalize /\ UNCHANGED <<jobVars, morphVars, pageVars, slot>>

InternSpec == InternInit /\ [][InternNext]_vars

NavInit ==
  JobInitial /\ MorphIdle /\ DocumentInitial /\ NavInitial /\ LiveIdle /\ AuxIdle

\* liveConnection() is called: the reconnect job starts.  Its attempt stays
\* in flight here.
OpenLiveConnection ==
  ~HasJob /\ LiveConnection(FALSE) /\ UNCHANGED <<docVars, navVars>>

NavNext ==
  \/ Edit /\ UNCHANGED <<morphVars, auxVars>>
  \/ Click /\ UNCHANGED <<morphVars, auxVars>>
  \/ Submit /\ UNCHANGED <<morphVars, auxVars>>
  \/ PopState /\ UNCHANGED <<morphVars, auxVars>>
  \/ FetchResolves /\ UNCHANGED <<morphVars, auxVars>>
  \/ TextResolves /\ UNCHANGED <<morphVars, auxVars>>
  \/ MountThrows /\ UNCHANGED <<morphVars, auxVars>>
  \/ AwaitRejects /\ UNCHANGED <<morphVars, auxVars>>
  \/ OpenLiveConnection /\ UNCHANGED <<morphVars, auxVars>>

NavSpec == NavInit /\ [][NavNext]_vars

LiveInit ==
  JobInitial /\ MorphIdle /\ DocumentInitial /\ NavInitial /\ LiveIdle /\ AuxIdle

LiveNext ==
  \/ Edit /\ UNCHANGED <<morphVars, auxVars>>
  \/ \E reload \in BOOLEAN :
       /\ ~HasJob
       /\ LiveConnection(reload)
       /\ UNCHANGED <<morphVars, docVars, navVars, auxVars>>
  \/ InactivityTimeout /\ UNCHANGED <<morphVars, navVars, auxVars>>
  \/ AttemptOpens /\ UNCHANGED <<morphVars, navVars, auxVars>>
  \/ AttemptFails /\ UNCHANGED <<morphVars, navVars, auxVars>>
  \/ ChunkArrives /\ UNCHANGED <<morphVars, navVars, auxVars>>
  \/ ReadRecord /\ UNCHANGED <<morphVars, navVars, auxVars>>
  \/ StreamEnds /\ UNCHANGED <<morphVars, navVars, auxVars>>
  \/ Reconnect /\ UNCHANGED <<morphVars, navVars, auxVars>>

LiveSpec == LiveInit /\ [][LiveNext]_vars

\* The page with its live session and its navigations together; what the
\* session streams is left to LiveSpec.
PageInit == NavInit

PageNext ==
  \/ \E reload \in BOOLEAN :
       LiveConnection(reload) /\ UNCHANGED <<morphVars, docVars, navVars, auxVars>>
  \/ Click /\ UNCHANGED <<morphVars, auxVars>>
  \/ FetchResolves /\ UNCHANGED <<morphVars, auxVars>>
  \/ TextResolves /\ UNCHANGED <<morphVars, auxVars>>
  \/ AwaitRejects /\ UNCHANGED <<morphVars, auxVars>>
  \/ AttemptOpens /\ UNCHANGED <<morphVars, navVars, auxVars>>
  \/ AttemptFails /\ UNCHANGED <<morphVars, navVars, auxVars>>
  \/ InactivityTimeout /\ UNCHANGED <<morphVars, navVars, auxVars>>
  \/ StreamEnds /\ UNCHANGED <<morphVars, navVars, auxVars>>
  \/ Reconnect /\ UNCHANGED <<morphVars, navVars, auxVars>>

PageSpec == PageInit /\ [][PageNext]_vars

\* A page whose live session streams records while the user follows links.
StreamNext ==
  \/ OpenLiveConnection /\ UNCHANGED <<morphVars, auxVars>>
  \/ AttemptOpens /\ UNCHANGED <<morphVars, navVars, auxVars>>
  \/ ChunkArrives /\ UNCHANGED <<morphVars, navVars, auxVars>>
  \/ ReadRecord /\ UNCHANGED <<morphVars, navVars, auxVars>>
  \/ StreamEnds /\ UNCHANGED <<morphVars, navVars, auxVars>>
  \/ Click /\ UNCHANGED <<morphVars, auxVars>>
  \/ FetchResolves /\ UNCHANGED <<morphVars, auxVars>>
  \/ TextResolves /\ UNCHANGED <<morphVars, auxVars>>

StreamSpec == PageInit /\ [][StreamNext]_vars

\* The page under the one assumption that a timer that is set and not
\* cleared fires: setTimeout(run, ...) of the reconnect job.
TimerFires == Reconnect /\ UNCHANGED <<morphVars, navVars, auxVars>>

FairPageSpec == PageSpec /\ WF_vars(TimerFires)

=============================================================================
